---- MODULE Spec2Model ----
(***************************************************************************)
(* Verification model of penny-stocks-pr-alerts.                           *)
(*                                                                         *)
(*   Part 1  runWithConcurrency   (src/src/run_realtime.ts:295-326)        *)
(*   Part 2  newsCycle / processItem / EventDB                             *)
(*           (src/src/run_realtime.ts:329-646, src/unnamed/part_007)       *)
(*   Part 3  runLlmCheck / sanitizeModelJSON                               *)
(*           (src/src/pipeline/llmCheck.ts)                                *)
(*                                                                         *)
(* JavaScript runs every callback to completion: an action of this model   *)
(* is one synchronous run (a call up to its first await, or one promise    *)
(* callback), so the interleavings are exactly those the event loop allows.*)
(***************************************************************************)
EXTENDS Integers, Sequences, FiniteSets, TLC

(***************************************************************************)
(* Bounds of the model.                                                    *)
(***************************************************************************)
MaxItems == 3

MaxConcurrency == 2

MaxCycles == 2

MaxBatch == 2

(* Calls made on one EventDB.                                               *)
MaxCalls == 4

(* body = fullBody.slice(0, 4000), counted in phrases of the modelled text. *)
BodyLimit == 2

(* Longest release handed to the classifier, in phrases.                    *)
MaxPhrases == 3

(* Largest maxRetryAttempts handed to getJsonWithRetry (its default).       *)
DefaultRetryAttempts == 3

(***************************************************************************)
(* Part 1: the concurrency pool.                                           *)
(***************************************************************************)
VARIABLES
    nItems,       \* items.length
    concurrency,  \* the concurrency argument
    kind,         \* what the worker does with item i: "ok" | "reject" | "throw"
    phase,        \* "idle" | "loop" (executor running) | "async" | "done" (empty input)
    loopK,        \* k of the executor's for loop
    first,        \* Math.min(concurrency, queue.length)
    cursor,       \* number of queue entries consumed
    active,       \* the pool's counter
    launched,     \* sequence of item indices handed to worker(), in call order
    inflight,     \* worker invocations started whose promise has not settled
    settled,      \* settled invocations whose .finally callback has not run yet
    logged,       \* indices logged by the .catch handler
    promise,      \* "none" | "pending" | "resolved" | "rejected"
    resolveCalls, \* number of resolve() calls
    unhandled     \* a .finally callback threw (launch threw inside it)

poolVars == <<nItems, concurrency, kind, phase, loopK, first, cursor, active,
              launched, inflight, settled, logged, promise, resolveCalls, unhandled>>

(***************************************************************************)
(* Part 2: the polling loop, the per-item pipeline and the ledger.         *)
(***************************************************************************)
VARIABLES
    CONCURRENCY,  \* the configured pool bound
    cycles,       \* per newsCycle call: phase, passed items, the pool's cursor/active
    wk,           \* wk[c][i]: where processItem(passed[i]) of cycle c stands
    ledger,       \* rows of the events table
    hist          \* per dedupe hash: what the workers of its items did so far

pipeVars == <<CONCURRENCY, cycles, wk, ledger, hist>>

(***************************************************************************)
(* Part 3: the enrichment gateway.                                         *)
(***************************************************************************)
VARIABLES
    llmItem,      \* the ClassifiedItem given to runLlmCheck
    modelRaw,     \* modelRaw[r]: what the remote service answered in run r
    out,          \* out[r]: what runLlmCheck returned in run r
    enrich,       \* enrich[r]: processItem's locals after its try/catch in run r
    lpc           \* "start" | "responded" | "done"

llmVars == <<llmItem, modelRaw, out, enrich, lpc>>

(***************************************************************************)
(* Part 4: an EventDB driven directly through its methods.                 *)
(***************************************************************************)
VARIABLES
    eventDb,      \* rows of the events table of this EventDB
    dbLog         \* the calls made so far, with what each returned

dbVars == <<eventDb, dbLog>>

(***************************************************************************)
(* Part 5: the classifier and the scorer on one batch of feed items.       *)
(***************************************************************************)
VARIABLES
    rawItems,     \* the batch handed to classify
    classified,   \* what classify returned, or the caller's own labelling
    scored,       \* what score returned
    by,           \* the Map that the latest classifyOne call built
    spc           \* "start" | "classified" | "labelled" | "scored" | "scoredDirect"

scoreVars == <<rawItems, classified, scored, by, spc>>

(***************************************************************************)
(* Part 6: one call of a request helper, requestWith429Retry of discord.ts *)
(* or getJsonWithRetry of polygon.ts.                                      *)
(***************************************************************************)
VARIABLES
    helper,           \* "discord" | "polygon"
    maxRetryAttempts, \* getJsonWithRetry's parameter
    attempts,         \* the outcome of every request the call made so far
    attemptIndex,     \* getJsonWithRetry's failure counter
    rpc               \* "request" | "backoff" | "returned" | "threw"

retryVars == <<helper, maxRetryAttempts, attempts, attemptIndex, rpc>>

vars == <<poolVars, pipeVars, llmVars, dbVars, scoreVars, retryVars>>

Min(a, b) == IF a < b THEN a ELSE b

Max(a, b) == IF a > b THEN a ELSE b

(* launch() reading queue[++cursor] instead of queue[cursor++].             *)
RECURSIVE launchPreIncrement(_, _, _, _, _, _)
launchPreIncrement(cur, act, log, n, b, k) ==
    IF cur >= n
    THEN [cursor |-> cur, active |-> act, launched |-> log,
          resolve |-> (act = 0), threw |-> FALSE]
    ELSE LET i  == cur + 1
             a1 == act + 1
             l1 == Append(log, i + 1)
         IN  IF a1 < b
             THEN launchPreIncrement(i, a1, l1, n, b, k)
             ELSE [cursor |-> i, active |-> a1, launched |-> l1,
                   resolve |-> FALSE, threw |-> FALSE]

(* launch() resolving as soon as the queue is empty, without "active === 0". *)
RECURSIVE launchResolveEarly(_, _, _, _, _, _)
launchResolveEarly(cur, act, log, n, b, k) ==
    IF cur >= n
    THEN [cursor |-> cur, active |-> act, launched |-> log,
          resolve |-> TRUE, threw |-> FALSE]
    ELSE LET i  == cur + 1
             a1 == act + 1
             l1 == Append(log, i)
         IN  IF a1 < b
             THEN launchResolveEarly(i, a1, l1, n, b, k)
             ELSE [cursor |-> i, active |-> a1, launched |-> l1,
                   resolve |-> FALSE, threw |-> FALSE]

(* launch(): one call of the closure, with its recursive call on line 321.  *)
(* The worker is called synchronously; a worker whose call throws leaves    *)
(* launch by exception after active++ and before .finally is attached.      *)
RECURSIVE launch(_, _, _, _, _, _)
launch(cur, act, log, n, b, k) ==
    IF cur >= n
    THEN [cursor |-> cur, active |-> act, launched |-> log,
          resolve |-> (act = 0), threw |-> FALSE]
    ELSE LET i  == cur + 1
             a1 == act + 1
             l1 == Append(log, i)
         IN  IF k[i] = "throw"
             THEN [cursor |-> i, active |-> a1, launched |-> l1,
                   resolve |-> FALSE, threw |-> TRUE]
             ELSE IF a1 < b
                  THEN launch(i, a1, l1, n, b, k)
                  ELSE [cursor |-> i, active |-> a1, launched |-> l1,
                        resolve |-> FALSE, threw |-> FALSE]

(* The invocations a launch() call left in flight.                          *)
Started(old, r) ==
    {i \in (old + 1)..r.cursor : ~(r.threw /\ i = r.cursor)}

(* Settling a pending promise: resolve() after reject() is a no-op.         *)
Settle(p, r) == IF r.resolve /\ p = "pending" THEN "resolved" ELSE p

AsyncKinds == {"ok", "reject"}

AnyKinds == {"ok", "reject", "throw"}

PoolInit(kinds) ==
    /\ nItems \in 0..MaxItems
    /\ concurrency \in 1..MaxConcurrency
    /\ kind \in [1..nItems -> kinds]
    /\ phase = "idle"
    /\ loopK = 0
    /\ first = 0
    /\ cursor = 0
    /\ active = 0
    /\ launched = <<>>
    /\ inflight = {}
    /\ settled = {}
    /\ logged = {}
    /\ promise = "none"
    /\ resolveCalls = 0
    /\ unhandled = FALSE

(* runWithConcurrency(items, worker, concurrency) up to the executor.       *)
Call ==
    /\ phase = "idle"
    /\ IF nItems = 0
       THEN /\ phase' = "done"
            /\ promise' = "resolved"
            /\ first' = first
       ELSE /\ phase' = "loop"
            /\ promise' = "pending"
            /\ first' = Min(concurrency, nItems)
    /\ UNCHANGED <<nItems, concurrency, kind, loopK, cursor, active, launched,
                   inflight, settled, logged, resolveCalls, unhandled>>

(* One iteration of "for (let k = 0; k < first; k++) launch();".            *)
ExecutorStep ==
    /\ phase = "loop"
    /\ loopK < first
    /\ LET r == launch(cursor, active, launched, nItems, concurrency, kind) IN
        /\ cursor' = r.cursor
        /\ active' = r.active
        /\ launched' = r.launched
        /\ inflight' = inflight \cup Started(cursor, r)
        /\ resolveCalls' = resolveCalls + (IF r.resolve THEN 1 ELSE 0)
        /\ IF r.threw
           THEN /\ promise' = "rejected"
                /\ phase' = "async"
                /\ loopK' = loopK
           ELSE /\ promise' = Settle(promise, r)
                /\ loopK' = loopK + 1
                /\ phase' = IF loopK + 1 >= first THEN "async" ELSE "loop"
    /\ UNCHANGED <<nItems, concurrency, kind, first, settled, logged, unhandled>>

(* The worker's promise fulfils.                                            *)
WorkerFulfil(i) ==
    /\ phase = "async"
    /\ i \in inflight
    /\ kind[i] = "ok"
    /\ inflight' = inflight \ {i}
    /\ settled' = settled \cup {i}
    /\ UNCHANGED <<nItems, concurrency, kind, phase, loopK, first, cursor, active,
                   launched, logged, promise, resolveCalls, unhandled>>

(* The worker's promise rejects: the .catch handler logs the error.         *)
WorkerReject(i) ==
    /\ phase = "async"
    /\ i \in inflight
    /\ kind[i] = "reject"
    /\ inflight' = inflight \ {i}
    /\ settled' = settled \cup {i}
    /\ logged' = logged \cup {i}
    /\ UNCHANGED <<nItems, concurrency, kind, phase, loopK, first, cursor, active,
                   launched, promise, resolveCalls, unhandled>>

(* A .finally callback that forgets to call launch().                       *)
FinallyNoLaunch(i) ==
    /\ phase = "async"
    /\ i \in settled
    /\ settled' = settled \ {i}
    /\ active' = active - 1
    /\ UNCHANGED <<nItems, concurrency, kind, phase, loopK, first, cursor, launched,
                   inflight, logged, promise, resolveCalls, unhandled>>

(* The .finally callback: active--; launch();                               *)
Finally(i) ==
    /\ phase = "async"
    /\ i \in settled
    /\ settled' = settled \ {i}
    /\ LET r == launch(cursor, active - 1, launched, nItems, concurrency, kind) IN
        /\ cursor' = r.cursor
        /\ active' = r.active
        /\ launched' = r.launched
        /\ inflight' = inflight \cup Started(cursor, r)
        /\ resolveCalls' = resolveCalls + (IF r.resolve THEN 1 ELSE 0)
        /\ promise' = Settle(promise, r)
        /\ unhandled' = (unhandled \/ r.threw)
    /\ UNCHANGED <<nItems, concurrency, kind, phase, loopK, first, logged>>

PoolNext ==
    \/ Call
    \/ ExecutorStep
    \/ \E i \in 1..MaxItems : WorkerFulfil(i)
    \/ \E i \in 1..MaxItems : WorkerReject(i)
    \/ \E i \in 1..MaxItems : Finally(i)

(* No callback is left to run.                                              *)
Quiescent ==
    \/ phase = "done"
    \/ phase = "async" /\ inflight = {} /\ settled = {}

(***************************************************************************)
(* Part 2: definitions.                                                    *)
(***************************************************************************)

(* A JavaScript value that may be undefined; strings are character tuples.  *)
Some(s) == [def |-> TRUE, s |-> s]

None == [def |-> FALSE, s |-> <<>>]

(* x ?? d                                                                   *)
Coalesce(x, d) == IF x.def THEN x.s ELSE d

(* `${x}` in a template literal.                                            *)
TemplateStr(x) ==
    IF x.def THEN x.s ELSE <<"u", "n", "d", "e", "f", "i", "n", "e", "d">>

(* sha256(...).digest("hex"), taken as collision-free: the digest is        *)
(* identified with the string that was digested.                            *)
Digest(s) == s

(* EventDB.makeHash                                                         *)
makeHash(x) ==
    Digest(TemplateStr(x.source) \o <<"|">> \o TemplateStr(x.title)
           \o <<"|">> \o Coalesce(x.url, <<>>))

(* seen() querying the wrong column.                                        *)
seenWrongColumn(db, hash) == \E row \in db : row.url = hash

(* EventDB.seen                                                             *)
seen(db, hash) == \E row \in db : row.hash = hash

(* save() with INSERT OR REPLACE in place of INSERT OR IGNORE.              *)
saveReplace(db, it) ==
    LET h == makeHash([title |-> it.title, url |-> it.url, source |-> it.source])
    IN  {r \in db : r.hash # h}
        \cup {[hash |-> h, provider_id |-> it.id, source |-> it.source,
               title |-> it.title, url |-> Coalesce(it.url, <<>>)]}

(* save() whose insert is lost.                                             *)
saveLost(db, item) == db

(* EventDB.save: INSERT OR IGNORE on the UNIQUE hash column.                *)
save(db, item) ==
    LET row == [hash        |-> makeHash([title |-> item.title, url |-> item.url,
                                          source |-> item.source]),
                provider_id |-> item.id,
                source      |-> item.source,
                title       |-> item.title,
                url         |-> Coalesce(item.url, <<>>)]
    IN  IF \E r \in db : r.hash = row.hash THEN db ELSE db \cup {row}

(* The hash processItem checks (lines 362-371).                             *)
dedupeHash(item) ==
    makeHash([title  |-> Some(Coalesce(item.title, <<>>)),
              url    |-> Some(Coalesce(item.url, <<>>)),
              source |-> item.source])

(* Items the providers return, as mapRow normalises them: the title is      *)
(* always a string, the url may be undefined, symbols may be empty.         *)
Catalog ==
    << [id |-> <<"p1">>, title |-> Some(<<"a">>), url |-> Some(<<"u">>),
        source |-> Some(<<"f">>), symbols |-> <<"X">>],
       [id |-> <<"p2">>, title |-> Some(<<"a">>), url |-> Some(<<"u">>),
        source |-> Some(<<"f">>), symbols |-> <<"X">>],
       [id |-> <<"p3">>, title |-> Some(<<"a">>), url |-> None,
        source |-> Some(<<"f">>), symbols |-> <<"X">>],
       [id |-> <<"p4">>, title |-> Some(<<"b">>), url |-> Some(<<"u">>),
        source |-> Some(<<"f">>), symbols |-> <<>>] >>

ItemIds == DOMAIN Catalog

(* The dedupe hash of each catalogue item.                                  *)
HashOf == [j \in ItemIds |-> dedupeHash(Catalog[j])]

Hashes == {HashOf[j] : j \in ItemIds}

Batches == UNION {[1..n -> ItemIds] : n \in 0..MaxBatch}

CycleIds == 1..MaxCycles

Slots == 1..MaxBatch

NoCycle == [phase |-> "unscheduled", passed |-> <<>>, cursor |-> 0, active |-> 0,
            failed |-> FALSE]

NoHist == [admitted |-> 0, deduped |-> 0, alerts |-> 0, lost |-> 0]

(* processItem is an async function: its call never throws.                 *)
AllAsync(n) == [i \in 1..n |-> "ok"]

(* The executor's for loop (lines 323-324), run to its end or to a throw.   *)
RECURSIVE executor(_, _, _, _, _, _)
executor(k, fst, st, n, b, kf) ==
    IF k >= fst \/ st.threw
    THEN st
    ELSE executor(k + 1, fst,
                  launch(st.cursor, st.active, st.launched, n, b, kf), n, b, kf)

(* A processItem that calls the enrichment before any filter.               *)
entryUnfiltered(item) == "llm"

(* processItem up to its first await (lines 331-338).                       *)
entry(item) == IF Len(item.symbols) = 0 THEN "settled" ELSE "mcap"

(* wk[c] after launch() started the invocations in `started`.               *)
withStarted(row, passed, started) ==
    [i \in Slots |-> IF i \in started THEN entry(Catalog[passed[i]]) ELSE row[i]]

PipeInit ==
    /\ CONCURRENCY \in 1..MaxConcurrency
    /\ cycles = [c \in CycleIds |-> NoCycle]
    /\ wk = [c \in CycleIds |-> [i \in Slots |-> "none"]]
    /\ ledger = {}
    /\ hist = [h \in Hashes |-> NoHist]

(* start(): the first newsCycle() call (line 642).                          *)
Boot ==
    /\ cycles[1].phase = "unscheduled"
    /\ cycles' = [cycles EXCEPT ![1].phase = "fetch"]
    /\ UNCHANGED <<CONCURRENCY, wk, ledger, hist>>

(* setInterval(newsCycle, pollMs) fires (line 644): nothing looks at the    *)
(* state of the previous call.                                              *)
IntervalTick(c) ==
    /\ c > 1
    /\ cycles[c].phase = "unscheduled"
    /\ cycles[c - 1].phase # "unscheduled"
    /\ cycles' = [cycles EXCEPT ![c].phase = "fetch"]
    /\ UNCHANGED <<CONCURRENCY, wk, ledger, hist>>

(* A rejection of a fetch that nothing catches: newsCycle's promise rejects *)
(* with no handler on it.                                                   *)
FetchFailUncaught(c) ==
    /\ cycles[c].phase = "fetch"
    /\ cycles' = [cycles EXCEPT ![c].phase = "crashed", ![c].failed = TRUE]
    /\ UNCHANGED <<CONCURRENCY, wk, ledger, hist>>

(* A provider fetch rejects: caught on line 632, the cycle ends.            *)
FetchFail(c) ==
    /\ cycles[c].phase = "fetch"
    /\ cycles' = [cycles EXCEPT ![c].phase = "done", ![c].failed = TRUE]
    /\ UNCHANGED <<CONCURRENCY, wk, ledger, hist>>

(* classify, score or the filter throws on what the fetches returned        *)
(* (lines 620-623): caught on line 632 like a failed fetch.                 *)
ComputeFail(c) ==
    /\ cycles[c].phase = "fetch"
    /\ cycles' = [cycles EXCEPT ![c].phase = "done", ![c].failed = TRUE]
    /\ UNCHANGED <<CONCURRENCY, wk, ledger, hist>>

(* Lines 617-631: the fetches return, classify/score/filter leave `batch`,  *)
(* and runWithConcurrency runs its executor.                                *)
FetchDone(c, batch) ==
    /\ cycles[c].phase = "fetch"
    /\ LET n  == Len(batch)
           st == executor(0, Min(CONCURRENCY, n),
                          [cursor |-> 0, active |-> 0, launched |-> <<>>,
                           resolve |-> FALSE, threw |-> FALSE],
                          n, CONCURRENCY, AllAsync(n))
       IN  IF n = 0
           THEN /\ cycles' = [cycles EXCEPT ![c].phase = "done"]
                /\ wk' = wk
           ELSE /\ cycles' = [cycles EXCEPT ![c] =
                        [phase |-> "run", passed |-> batch, cursor |-> st.cursor,
                         active |-> st.active, failed |-> FALSE]]
                /\ wk' = [wk EXCEPT ![c] = withStarted(wk[c], batch, 1..st.cursor)]
    /\ UNCHANGED <<CONCURRENCY, ledger, hist>>

(* await isMarketCapValid(...) returns (lines 338-349).                     *)
MarketCapDone(c, i, ok) ==
    /\ wk[c][i] = "mcap"
    /\ wk' = [wk EXCEPT ![c][i] = IF ok THEN "exch" ELSE "settled"]
    /\ UNCHANGED <<CONCURRENCY, cycles, ledger, hist>>

(* await isExchangeOk(symbol) returns; on success the worker runs on        *)
(* through the dedupe block without suspending (lines 352-379).             *)
ExchangeDone(c, i, ok) ==
    /\ wk[c][i] = "exch"
    /\ LET id   == cycles[c].passed[i]
           item == Catalog[id]
           hash == HashOf[id]
       IN  IF ~ok
           THEN /\ wk' = [wk EXCEPT ![c][i] = "settled"]
                /\ UNCHANGED <<ledger, hist>>
           ELSE IF seen(ledger, hash)
                THEN /\ wk' = [wk EXCEPT ![c][i] = "settled"]
                     /\ hist' = [hist EXCEPT ![hash].deduped = @ + 1]
                     /\ ledger' = ledger
                ELSE /\ ledger' = save(ledger, item)
                     /\ hist' = [hist EXCEPT ![hash].admitted = @ + 1]
                     /\ wk' = [wk EXCEPT ![c][i] = "llm"]
    /\ UNCHANGED <<CONCURRENCY, cycles>>

(* await runLlmCheck(...) returns or throws; the throw is caught on line    *)
(* 456 and the worker goes on to build and send the message.                *)
LlmDone(c, i, ok) ==
    /\ wk[c][i] = "llm"
    /\ wk' = [wk EXCEPT ![c][i] = "notify"]
    /\ UNCHANGED <<CONCURRENCY, cycles, ledger, hist>>

(* await notifyDiscord(...) returns: the message was posted, or the post    *)
(* failed (or no token is configured) and notifyDiscord returned silently.  *)
NotifyDone(c, i, delivered) ==
    /\ wk[c][i] = "notify"
    /\ LET hash == HashOf[cycles[c].passed[i]] IN
         hist' = IF delivered
                 THEN [hist EXCEPT ![hash].alerts = @ + 1]
                 ELSE [hist EXCEPT ![hash].lost = @ + 1]
    /\ wk' = [wk EXCEPT ![c][i] = "settled"]
    /\ UNCHANGED <<CONCURRENCY, cycles, ledger>>

(* The pool's .finally callback for worker i of cycle c; when it resolves   *)
(* the pool's promise, newsCycle resumes after line 631 and ends.           *)
PoolFinally(c, i) ==
    /\ wk[c][i] = "settled"
    /\ LET cy == cycles[c]
           n  == Len(cy.passed)
           r  == launch(cy.cursor, cy.active - 1, <<>>, n, CONCURRENCY, AllAsync(n))
       IN  /\ cycles' = [cycles EXCEPT ![c].cursor = r.cursor,
                                       ![c].active = r.active,
                                       ![c].phase = IF r.resolve THEN "done" ELSE @]
           /\ wk' = [wk EXCEPT ![c] =
                  withStarted([wk[c] EXCEPT ![i] = "gone"], cy.passed,
                              Started(cy.cursor, r))]
    /\ UNCHANGED <<CONCURRENCY, ledger, hist>>

PipeNext ==
    \/ Boot
    \/ \E c \in CycleIds : IntervalTick(c)
    \/ \E c \in CycleIds : FetchFail(c)
    \/ \E c \in CycleIds : ComputeFail(c)
    \/ \E c \in CycleIds, batch \in Batches : FetchDone(c, batch)
    \/ \E c \in CycleIds, i \in Slots, ok \in BOOLEAN : MarketCapDone(c, i, ok)
    \/ \E c \in CycleIds, i \in Slots, ok \in BOOLEAN : ExchangeDone(c, i, ok)
    \/ \E c \in CycleIds, i \in Slots, ok \in BOOLEAN : LlmDone(c, i, ok)
    \/ \E c \in CycleIds, i \in Slots, d \in BOOLEAN : NotifyDone(c, i, d)
    \/ \E c \in CycleIds, i \in Slots : PoolFinally(c, i)

(***************************************************************************)
(* Part 3: definitions.  Percentages are kept in hundredths of a point     *)
(* and [0,1] quantities in hundredths, so 0.72 is 72 and 80% is 8000.      *)
(***************************************************************************)

Pct(n) == n * 100

Num(v) == [nan |-> FALSE, v |-> v]

NaN == [nan |-> TRUE, v |-> 0]

(* An optional number.                                                      *)
Known(v) == [def |-> TRUE, v |-> v]

Unknown == [def |-> FALSE, v |-> 0]

(* JSON values of a numeric field: a number, a numeric string (with or      *)
(* without a trailing %), a non-numeric string, or nothing.                 *)
RNum(v) == [t |-> "num", v |-> v, pct |-> FALSE]

RStr(v, pct) == [t |-> "str", v |-> v, pct |-> pct]

RJunk == [t |-> "junk", v |-> 0, pct |-> FALSE]

RMissing == [t |-> "missing", v |-> 0, pct |-> FALSE]

(* A text is a sequence of phrases; each phrase stands for wording that     *)
(* one of the patterns of llmCheck.ts matches.                              *)
Has(text, tok) == \E i \in 1..Len(text) : text[i] = tok

Take(text, n) == SubSeq(text, 1, Min(n, Len(text)))

(* Millions named by a "$N million" phrase, and by a raw "$NNNNNNN" figure. *)
UnitAmounts == {"$2m", "$30m", "$900b"}

RawAmounts == {"$5000000"}

AmountOf(tok) ==
    CASE tok = "$2m" -> 2
      [] tok = "$30m" -> 30
      [] tok = "$900b" -> 900000
      [] tok = "$5000000" -> 5
      [] OTHER -> 0

RECURSIVE FirstOf(_, _, _)
FirstOf(text, toks, i) ==
    IF i > Len(text) THEN Unknown
    ELSE IF text[i] \in toks THEN Known(AmountOf(text[i]))
    ELSE FirstOf(text, toks, i + 1)

parsePctAny(x) ==
    CASE x.t = "missing" -> NaN
      [] x.t = "num" -> Num(IF x.v <= 100 THEN x.v * 100 ELSE x.v)
      [] x.t = "str" -> Num(IF x.pct THEN x.v
                            ELSE IF x.v <= 100 THEN x.v * 100 ELSE x.v)
      [] OTHER -> NaN

bucketFromP90(p90) ==
    CASE p90 >= Pct(500) -> "500%+"
      [] p90 >= Pct(300) -> "300-500%"
      [] p90 >= Pct(150) -> "150-300%"
      [] p90 >= Pct(80) -> "80-150%"
      [] p90 >= Pct(40) -> "40-80%"
      [] p90 >= Pct(20) -> "20-40%"
      [] p90 >= Pct(10) -> "10-20%"
      [] p90 >= Pct(5) -> "5-10%"
      [] OTHER -> "<5%"

isWirePR(url, text) == url \in {"wire", "ir"} \/ Has(text, "wire")

hasNamedCounterparty(text) == Has(text, "party")

hasQuantDetails(text) ==
    \/ \E i \in 1..Len(text) : text[i] \in UnitAmounts \cup RawAmounts
    \/ Has(text, "years")

(* The unit pattern is tried on the whole text before the raw pattern.      *)
extractDollarsMillions(x) ==
    LET mm == FirstOf(x, UnitAmounts, 1)
    IN  IF mm.def THEN mm ELSE FirstOf(x, RawAmounts, 1)

(* Basics of runLlmCheck (lines 624-634): the item's cap, else the fetched  *)
(* one when the item names a symbol.                                        *)
basicsOf(it) ==
    LET own == IF it.marketCap.def THEN it.marketCap ELSE Unknown
    IN  IF (~own.def \/ own.v = 0) /\ it.hasSymbol THEN it.fetchedCap ELSE own

(* Market cap in millions; the caps of the model are whole millions.        *)
marketCapM(it, basics) == IF it.marketCap.def THEN it.marketCap ELSE basics

(* ratio >= num/den, for ratio = amtM / mcM.                                *)
RatioAtLeast(amtM, mcM, num, den) ==
    mcM.def /\ mcM.v > 0 /\ amtM * den >= num * mcM.v

Floors(f50, f90) == [p50 |-> f50, p90 |-> f90]

(* add(f50, f90) when cond holds.                                           *)
AddIf(cond, fl, f50, f90) ==
    IF cond THEN Floors(Max(fl.p50, f50), Max(fl.p90, f90)) ELSE fl

PlusIf(cond, fl, d50, d90) ==
    IF cond THEN Floors(fl.p50 + d50, fl.p90 + d90) ELSE fl

(* The switch of calibrateWithOTCHeuristics (lines 300-365): the floors.    *)
floorsOf(it, basics, body) ==
    LET mcM     == marketCapM(it, basics)
        amt     == extractDollarsMillions(body)
        amtM    == IF amt.def THEN amt.v ELSE 0
        isMicro == IF mcM.def THEN mcM.v < 150 ELSE TRUE
        isNano  == IF mcM.def THEN mcM.v < 50 ELSE TRUE
        onWire  == isWirePR(it.url, body)
        hiRule  == it.score >= 58
        z       == Floors(0, 0)
        pf      == Has(body, "projfin") \/ Has(body, "royalty")
    IN  CASE it.klass = "RESTRUCTURING_OR_FINANCING" ->
               LET a1 == AddIf(pf, z, 25, 70)
                   a2 == AddIf(Has(body, "fullyfunded"), a1, 35, 100)
                   a3 == AddIf(Has(body, "construction"), a2, 40, 120)
                   a4 == AddIf(Has(body, "permit"), a3, 30, 90)
                   a5 == AddIf(Has(body, "offtake"), a4, 25, 80)
                   a6 == AddIf(Has(body, "prodstart"), a5, 45, 150)
                   a7 == IF RatioAtLeast(amtM, mcM, 1, 2) THEN AddIf(TRUE, a6, 80, 200)
                         ELSE IF RatioAtLeast(amtM, mcM, 1, 4) THEN AddIf(TRUE, a6, 55, 160)
                         ELSE IF RatioAtLeast(amtM, mcM, 1, 10) THEN AddIf(TRUE, a6, 40, 110)
                         ELSE IF RatioAtLeast(amtM, mcM, 1, 20) THEN AddIf(TRUE, a6, 28, 80)
                         ELSE a6
                   a8 == IF isNano THEN PlusIf(TRUE, a7, 12, 30)
                         ELSE PlusIf(isMicro, a7, 6, 18)
               IN  PlusIf(onWire /\ Has(body, "nondilutive"), a8, 6, 10)
          [] it.klass = "ACQUISITION_BUYOUT" ->
               AddIf(isNano, AddIf(hiRule, z, 45, 120), 10, 30)
          [] it.klass = "CE_REMOVAL_OR_RESUME_TRADING" ->
               AddIf(isNano, AddIf(TRUE, z, 60, 180), 10, 40)
          [] it.klass \in {"INSIDER_BUY_CLUSTER", "TOXIC_FINANCING_TERMINATED",
                           "DILUTION_FREE_INVESTMENT"} ->
               AddIf(hiRule, z, 35, 100)
          [] it.klass \in {"MAJOR_GOV_CONTRACT", "GOVERNMENT_EQUITY_OR_GRANT"} ->
               AddIf(RatioAtLeast(amtM, mcM, 1, 10), AddIf(hiRule, z, 40, 120), 50, 150)
          [] it.klass \in {"LARGE_ORDER_RELATIVE", "DISTRIBUTION_AGREEMENT_MATERIAL"} ->
               IF RatioAtLeast(amtM, mcM, 1, 4) THEN AddIf(TRUE, z, 50, 140)
               ELSE IF RatioAtLeast(amtM, mcM, 1, 10) THEN AddIf(TRUE, z, 35, 100)
               ELSE AddIf(TRUE, z, 25, 70)
          [] it.klass \in {"PIVOTAL_TRIAL_SUCCESS", "FDA_MARKETING_AUTH",
                           "FDA_ADCOM_POSITIVE"} ->
               AddIf(isNano, AddIf(TRUE, z, 45, 140), 10, 30)
          [] OTHER -> AddIf(hiRule /\ isMicro, z, 25, 70)

calibrateWithOTCHeuristics(it, basics, body, est) ==
    LET fl      == floorsOf(it, basics, body)
        onWire  == isWirePR(it.url, body)
        pf      == Has(body, "projfin") \/ Has(body, "royalty")
        strong  == Cardinality({t \in {"fullyfunded", "construction", "prodstart"} :
                                   Has(body, t)}) + (IF pf THEN 1 ELSE 0)
        cs      == IF /\ it.klass = "RESTRUCTURING_OR_FINANCING"
                      /\ strong >= 2
                      /\ est.catalyst_strength < 72
                   THEN 72 ELSE est.catalyst_strength
        p50     == Max(est.expected_move.p50, Pct(fl.p50))
        p90     == Min(Pct(1000),
                       Max(est.expected_move.p90, Max(p50 + Pct(1), Pct(fl.p90))))
        c1      == IF /\ \/ p50 - est.expected_move.p50 >= Pct(20)
                         \/ p90 - est.expected_move.p90 >= Pct(50)
                      /\ est.confidence = "low"
                   THEN "medium" ELSE est.confidence
        c2      == IF /\ onWire
                      /\ \E t \in {"fullyfunded", "construction", "prodstart"} :
                            Has(body, t)
                      /\ c1 # "high"
                   THEN "medium" ELSE c1
    IN  [expected_move |-> [p50 |-> p50, p90 |-> p90, bucket |-> bucketFromP90(p90)],
         confidence |-> c2, catalyst_strength |-> cs]

BUCKETS == {"<5%", "5-10%", "10-20%", "20-40%", "40-80%", "80-150%", "150-300%",
            "300-500%", "500%+"}

Clamp(lo, hi, v) == Max(lo, Min(hi, v))

(* clamp01 of sanitizeModelJSON: a non-numeric value becomes 0.             *)
clamp01(x) == IF x.t \in {"num", "str"} THEN Clamp(0, 100, x.v) ELSE 0

NoImpact == [present |-> FALSE, materiality |-> RMissing, bindingLevel |-> RMissing,
             counterpartyQuality |-> RMissing, specificity |-> RMissing,
             corroboration |-> RMissing, executionRisk |-> RMissing]

(* A scorecard whose six components all have the value v.                   *)
ImpactAll(v) == [present |-> TRUE, materiality |-> RNum(v), bindingLevel |-> RNum(v),
                 counterpartyQuality |-> RNum(v), specificity |-> RNum(v),
                 corroboration |-> RNum(v), executionRisk |-> RNum(v)]

(* The weighted total, in 1/10000.                                          *)
impactTotal(im) ==
    Clamp(0, 10000,
          clamp01(im.materiality) * 28 + clamp01(im.bindingLevel) * 22
          + clamp01(im.counterpartyQuality) * 18 + clamp01(im.specificity) * 12
          + clamp01(im.corroboration) * 14 + clamp01(im.executionRisk) * 6)

sanitizeModelJSON(raw) ==
    LET em   == raw.est.expected_move
        p50r == parsePctAny(em.p50)
        p90r == parsePctAny(em.p90)
        p50a == IF p50r.nan THEN 0 ELSE p50r.v
        p90a == IF p90r.nan THEN p50a ELSE p90r.v
        p50  == Max(0, Min(Pct(1000), p50a))
        p90  == Max(p50 + Pct(1), Min(Pct(1000), p90a))
    IN  [est      |-> [expected_move |->
                           [p50 |-> p50, p90 |-> p90,
                            bucket |-> IF em.bucket \in BUCKETS THEN em.bucket
                                       ELSE bucketFromP90(p90)],
                       confidence |-> IF raw.est.confidence \in {"high", "medium"}
                                      THEN raw.est.confidence ELSE "low",
                       catalyst_strength |-> clamp01(raw.est.catalyst_strength)],
         decision |-> [invest  |-> IF raw.decision.invest = "missing" THEN "PASS"
                                   ELSE raw.decision.invest,
                       reasons |-> raw.decision.reasons,
                       gates   |-> raw.decision.gates],
         impact   |-> IF raw.impact.present
                      THEN [present |-> TRUE, total |-> impactTotal(raw.impact)]
                      ELSE [present |-> FALSE, total |-> 0]]

(* Lines 781-792.                                                           *)
computedGates(it, url, body, norm) ==
    [isWire |-> isWirePR(url, body) \/ norm.decision.gates.isWire,
     hasNamedCounterparty |->
         hasNamedCounterparty(body) \/ norm.decision.gates.hasNamedCounterparty,
     hasQuantDetails |-> hasQuantDetails(body) \/ norm.decision.gates.hasQuantDetails,
     hasIndependentCorroboration |-> norm.decision.gates.hasIndependentCorroboration,
     tickerVerified |-> norm.decision.gates.tickerVerified \/ it.hasSymbol,
     redFlagsDetected |-> norm.decision.gates.redFlagsDetected]

(* gatesPass without the red-flag conjunct.                                 *)
gatesPassNoRedFlag(g) ==
    /\ g.isWire
    /\ g.hasNamedCounterparty
    /\ g.hasQuantDetails
    /\ g.hasIndependentCorroboration
    /\ g.tickerVerified

(* Lines 795-801.                                                           *)
gatesPass(g) ==
    /\ g.isWire
    /\ g.hasNamedCounterparty
    /\ g.hasQuantDetails
    /\ g.hasIndependentCorroboration
    /\ g.tickerVerified
    /\ ~g.redFlagsDetected

(* est: null.                                                               *)
NoEst == [expected_move |-> [p50 |-> 0, p90 |-> 0, bucket |-> "none"],
          confidence |-> "none", catalyst_strength |-> 0]

(* finalInvest taking the remote verdict when the gates pass.               *)
finalInvestRemote(pass, est, norm) ==
    IF pass THEN norm.decision.invest ELSE "PASS"

(* Lines 809-826; est = NoEst stands for null.                              *)
finalInvest(pass, est, norm) ==
    LET cs    == IF est = NoEst THEN 0 ELSE est.catalyst_strength
        conf  == IF est = NoEst THEN "low" ELSE est.confidence
        p90   == IF est = NoEst THEN 0 ELSE est.expected_move.p90
        total == IF norm.impact.present THEN norm.impact.total ELSE 0
    IN  IF ~pass THEN "PASS"
        ELSE IF conf = "high" /\ cs >= 70 /\ p90 >= Pct(80) /\ total >= 6800
             THEN "YES"
        ELSE IF conf \in {"high", "medium"} /\ cs >= 50 /\ p90 >= Pct(40)
                /\ total >= 5000
             THEN "SPECULATIVE"
        ELSE "PASS"

NoAnswer == [kind |-> "null"]

(* runLlmCheck from the parsed answer on (lines 636-880); url is            *)
(* canonical.url, which processItem sets to item.url ?? "".                 *)
runLlmCheck(it, raw) ==
    LET basics   == basicsOf(it)
        fullBody == it.text
        body     == Take(fullBody, BodyLimit)
    IN  IF raw = NoAnswer
        THEN [kind   |-> "out",
              invest |-> "PASS",
              reasons |-> "parse failure",
              gates  |-> [isWire |-> isWirePR(it.url, body),
                          hasNamedCounterparty |-> hasNamedCounterparty(body),
                          hasQuantDetails |-> hasQuantDetails(body),
                          hasIndependentCorroboration |-> FALSE,
                          tickerVerified |-> it.hasSymbol,
                          redFlagsDetected |-> FALSE],
              est    |-> NoEst,
              impact |-> [present |-> FALSE, total |-> 0]]
        ELSE LET norm  == sanitizeModelJSON(raw)
                 gates == computedGates(it, it.url, body, norm)
                 pass  == gatesPass(gates)
                 est   == IF pass
                          THEN calibrateWithOTCHeuristics(it, basics, fullBody, norm.est)
                          ELSE NoEst
                 inv   == finalInvest(pass, est, norm)
             IN  [kind   |-> "out",
                  invest |-> inv,
                  reasons |-> IF inv = "PASS"
                              THEN (IF pass THEN "below thresholds" ELSE "gates failed")
                              ELSE "all gates passed",
                  gates  |-> gates,
                  est    |-> est,
                  impact |-> norm.impact]

(* Items given to runLlmCheck.                                              *)
LlmItems ==
    { [url |-> "wire", text |-> <<"party", "$30m">>, klass |-> "ACQUISITION_BUYOUT",
       score |-> 72, marketCap |-> Known(20), fetchedCap |-> Unknown,
       hasSymbol |-> TRUE],
      [url |-> "other", text |-> <<"plain">>, klass |-> "OTHER",
       score |-> 30, marketCap |-> Unknown, fetchedCap |-> Unknown,
       hasSymbol |-> TRUE],
      [url |-> "other", text |-> <<"party", "years", "wire">>,
       klass |-> "RESTRUCTURING_OR_FINANCING",
       score |-> 60, marketCap |-> Known(200), fetchedCap |-> Unknown,
       hasSymbol |-> TRUE],
      [url |-> "ir", text |-> <<"fullyfunded", "construction", "party", "$2m">>,
       klass |-> "RESTRUCTURING_OR_FINANCING",
       score |-> 50, marketCap |-> Unknown, fetchedCap |-> Known(8),
       hasSymbol |-> TRUE],
      [url |-> "wire", text |-> <<"party", "years">>, klass |-> "MAJOR_GOV_CONTRACT",
       score |-> 66, marketCap |-> Known(0), fetchedCap |-> Unknown,
       hasSymbol |-> FALSE],
      [url |-> "invalid", text |-> <<"wire", "party", "$5000000">>,
       klass |-> "LARGE_ORDER_RELATIVE",
       score |-> 40, marketCap |-> Known(10), fetchedCap |-> Unknown,
       hasSymbol |-> TRUE] }

GateNames == {"isWire", "hasNamedCounterparty", "hasQuantDetails",
              "hasIndependentCorroboration", "tickerVerified", "redFlagsDetected"}

AllPass == [g \in GateNames |-> g # "redFlagsDetected"]

(* Gate claims of the remote answer: all passing, one gate off, none.       *)
GateClaims ==
    {AllPass} \cup {[AllPass EXCEPT ![g] = ~@] : g \in GateNames}
    \cup {[g \in GateNames |-> FALSE]}

Invests == {"YES", "SPECULATIVE", "PASS"}

(* Answers of the remote service that parse to a JSON object.               *)
Answers ==
    [kind : {"json"},
     est : [expected_move : [p50 : {RMissing, RNum(2000)},
                             p90 : {RNum(3000), RNum(6000), RNum(12000)},
                             bucket : {"none"}],
            confidence : {"low", "medium", "high"},
            catalyst_strength : {RNum(40), RNum(60), RNum(80)}],
     decision : [invest : Invests, reasons : {"r1"}, gates : GateClaims],
     impact : {NoImpact, ImpactAll(40), ImpactAll(60), ImpactAll(80)}]

(* Answers that follow the declared response schema (lines 462-602): the    *)
(* scorecard is a member of decision, and the top level has no impact       *)
(* member.                                                                  *)
SchemaAnswers ==
    [kind : {"json"},
     est : [expected_move : [p50 : {RNum(2000)},
                             p90 : {RNum(6000), RNum(12000)},
                             bucket : {"none"}],
            confidence : {"medium", "high"},
            catalyst_strength : {RNum(60), RNum(80)}],
     decision : [invest : Invests, reasons : {"r1"}, gates : {AllPass},
                 impact : {ImpactAll(60), ImpactAll(80)}],
     impact : {NoImpact}]

(* Expected-move values of a remote answer: missing, non-numeric, negative, *)
(* fractional, plain, at 1000 and above 1000, as numbers and as strings.    *)
MoveValues ==
    {RMissing, RJunk, RNum(-500), RNum(50), RNum(2000), RNum(100000), RNum(150000),
     RStr(99950, TRUE), RStr(50, FALSE)}

(* Answers that pass every gate and vary in the expected move only.         *)
MoveAnswers ==
    [kind : {"json"},
     est : [expected_move : [p50 : MoveValues, p90 : MoveValues, bucket : {"none"}],
            confidence : {"low"},
            catalyst_strength : {RNum(60)}],
     decision : [invest : {"PASS"}, reasons : {"r1"}, gates : {AllPass}],
     impact : {ImpactAll(60)}]

(* A JSON object with none of the fields the sanitizer reads.               *)
EmptyAnswer ==
    [kind |-> "json",
     est |-> [expected_move |-> [p50 |-> RMissing, p90 |-> RMissing, bucket |-> "none"],
              confidence |-> "missing", catalyst_strength |-> RMissing],
     decision |-> [invest |-> "missing", reasons |-> "none",
                   gates |-> [g \in GateNames |-> FALSE]],
     impact |-> NoImpact]

(* The same answer with another verdict and other reasons.                  *)
OtherVerdicts(raw) ==
    IF raw = NoAnswer THEN {raw}
    ELSE {[raw EXCEPT !.decision.invest = v, !.decision.reasons = "r2"] :
            v \in Invests \ {raw.decision.invest}}

Runs == 1..2

NoOut == [kind |-> "none"]

(* runLlmCheck rejected: an awaited call in it threw.                       *)
Threw == [kind |-> "threw"]

NoLocals == [kind |-> "none"]

(* processItem without the try/catch around runLlmCheck.                    *)
afterEnrichmentUncaught(o) ==
    IF o = Threw
    THEN [kind |-> "locals", decision |-> "PASS", est |-> NoEst, stage |-> "aborted"]
    ELSE [kind |-> "locals", decision |-> o.invest, est |-> o.est, stage |-> "notify"]

(* processItem lines 381-458: the locals start as PASS with no estimate,    *)
(* are overwritten from the result when runLlmCheck returns, and are left   *)
(* alone by the catch; the worker then goes on to notifyDiscord.            *)
afterEnrichment(o) ==
    IF o = Threw
    THEN [kind |-> "locals", decision |-> "PASS", est |-> NoEst, stage |-> "notify"]
    ELSE [kind |-> "locals", decision |-> o.invest, est |-> o.est, stage |-> "notify"]

LlmInit ==
    /\ llmItem \in LlmItems
    /\ modelRaw = [r \in Runs |-> NoAnswer]
    /\ out = [r \in Runs |-> NoOut]
    /\ enrich = [r \in Runs |-> NoLocals]
    /\ lpc = "start"

(* The remote service answers (lines 676-723): run 1 gets some answer, or   *)
(* none that parses; run 2 is the same call answered with another verdict.  *)
(* No answer stands for a missing API key (line 667) and for a text that    *)
(* does not parse (lines 713-723).                                          *)
Respond ==
    /\ lpc = "start"
    /\ \E raw \in Answers \cup MoveAnswers \cup SchemaAnswers \cup {EmptyAnswer, NoAnswer} :
         \E raw2 \in OtherVerdicts(raw) :
            modelRaw' = [r \in Runs |-> IF r = 1 THEN raw ELSE raw2]
    /\ lpc' = "responded"
    /\ UNCHANGED <<llmItem, out, enrich>>

(* The awaited remote call rejects (network error, timeout, HTTP error):    *)
(* nothing in runLlmCheck catches it, so runLlmCheck rejects, in both runs. *)
CallRejects ==
    /\ lpc = "start"
    /\ out' = [r \in Runs |-> Threw]
    /\ lpc' = "done"
    /\ UNCHANGED <<llmItem, modelRaw, enrich>>

(* runLlmCheck returns in run r.                                            *)
Return(r) ==
    /\ lpc = "responded"
    /\ out[r] = NoOut
    /\ \A q \in Runs : q < r => enrich[q] # NoLocals
    /\ out' = [out EXCEPT ![r] = runLlmCheck(llmItem, modelRaw[r])]
    /\ lpc' = IF r = 2 THEN "done" ELSE lpc
    /\ UNCHANGED <<llmItem, modelRaw, enrich>>

(* processItem resumes after await runLlmCheck(...) in run r.               *)
Consume(r) ==
    /\ out[r] # NoOut
    /\ enrich[r] = NoLocals
    /\ \A q \in Runs : q < r => enrich[q] # NoLocals
    /\ enrich' = [enrich EXCEPT ![r] = afterEnrichment(out[r])]
    /\ UNCHANGED <<llmItem, modelRaw, out, lpc>>

LlmNext ==
    \/ Respond
    \/ CallRejects
    \/ \E r \in Runs : Return(r)
    \/ \E r \in Runs : Consume(r)

(***************************************************************************)
(* Part 4: definitions.                                                    *)
(***************************************************************************)

(* The hash save() returns (row.hash, lines 44-49 and 60).                  *)
saveReturn(it) == makeHash([title |-> it.title, url |-> it.url, source |-> it.source])

DbInit ==
    /\ eventDb = {}
    /\ dbLog = <<>>

(* eventDb.save(Catalog[id])                                                *)
SaveCall(id) ==
    /\ Len(dbLog) < MaxCalls
    /\ eventDb' = save(eventDb, Catalog[id])
    /\ dbLog' = Append(dbLog, [op |-> "save", id |-> id,
                               hash |-> saveReturn(Catalog[id]), found |-> FALSE])

(* eventDb.seen(hash) for the hash of Catalog[id]'s (title, url, source)    *)
SeenCall(id) ==
    /\ Len(dbLog) < MaxCalls
    /\ LET h == saveReturn(Catalog[id])
       IN  dbLog' = Append(dbLog, [op |-> "seen", id |-> id, hash |-> h,
                                   found |-> seen(eventDb, h)])
    /\ UNCHANGED eventDb

(* Items handed to processItem's dedupe step: the title or the url may be   *)
(* missing, and either may contain the separator.                           *)
DedupeItems ==
    [id : {<<"p">>}, title : {None, Some(<<"a">>), Some(<<"a", "|", "b">>)},
     url : {None, Some(<<"u">>), Some(<<"b", "|", "u">>)},
     source : {Some(<<"f">>)}, symbols : {<<"X">>}]

(* processItem lines 361-379 on one item: the hash of the canonical         *)
(* headline and link is looked up, and the item is saved if it is not       *)
(* found.                                                                   *)
Dedupe(it) ==
    /\ Len(dbLog) < MaxCalls
    /\ dbLog' = Append(dbLog, [op |-> IF seen(eventDb, dedupeHash(it)) THEN "dup" ELSE "save",
                               item |-> it, hash |-> dedupeHash(it),
                               found |-> seen(eventDb, dedupeHash(it))])
    /\ eventDb' = IF seen(eventDb, dedupeHash(it)) THEN eventDb ELSE save(eventDb, it)

DbNext ==
    \/ \E id \in ItemIds : SaveCall(id)
    \/ \E id \in ItemIds : SeenCall(id)

(***************************************************************************)
(* Part 5: definitions.  classify.ts and score.ts (its latest variant,     *)
(* part_003 lines 850-1227).  Scores are in hundredths, classifyOne's      *)
(* weights too (weight 9 is 900), market caps in millions of dollars.      *)
(***************************************************************************)

(* A string field of an item: absent (undefined), or a text, which may be   *)
(* the empty string.                                                        *)
Str(s) == [def |-> TRUE, s |-> s]

Undef == [def |-> FALSE, s |-> <<>>]

(* a ?? b on string fields: only an absent a gives way.                     *)
Nullish(a, b) == IF a.def THEN a ELSE b

(* a || b on string fields: an absent or an empty a gives way.              *)
Falsy(a, b) == IF a.def /\ a.s # <<>> THEN a ELSE b

(* The patterns that a phrase matches, by the names they have in score.ts   *)
(* (upper case) and in classify.ts's PAT table (camel case).  "misinfo" is  *)
(* "clarifies misinformation", "analyst" is "initiates coverage with a Buy  *)
(* rating and $10 price target", "merger" is "enters into a definitive      *)
(* merger agreement", "pershare" is "$5.00 per share", "$30m" and "$900b"   *)
(* are "$30 million" and "$900 billion", "unauth" is "unauthorized release" *)
(* and "unauth/nl" the same two words with a line break between them;       *)
(* "plain" matches nothing.  "approval" is "receives FDA approval",         *)
(* "topline" is "topline data met the primary endpoint", "priority" is      *)
(* "priority review", "holdlift" is "FDA lifts clinical hold", "announce"   *)
(* is "announces acquisition", "dividend" is "special dividend of $1.00",   *)
(* "dismiss" is "case dismissed with prejudice", "courtwin" is "court       *)
(* grants injunction", "influencer" is "Roaring Kitty", "patent" is "US     *)
(* patent issued", "secupdate" is "cybersecurity incident update", "award"  *)
(* is "industry prize", "namechange" is "name change", "lawfirm" is "class  *)
(* action", "proxy" is "Glass Lewis recommends the proposal", "voteonly" is *)
(* "special meeting", "conference" is "to participate in investor           *)
(* conference", "erratum" is "erratum", "dilution" is "registered direct",  *)
(* and "nowarrants" is "no warrants", which the dilution pattern matches    *)
(* as well.                                                                 *)
MatchedBy(tok) ==
    CASE tok = "misinfo" -> {"KILL_MISINFO", "misinfo"}
      [] tok = "analyst" -> {"ANALYST_NOISE", "analystMedia"}
      [] tok = "unauth" -> {"KILL_MISINFO", "misinfo"}
      [] tok = "merger" -> {"RX_MNA_DEFINITIVE", "mnaBinding", "dealSigned",
                            "strongAction"}
      [] tok = "pershare" -> {"RX_MNA_PERPRICE", "mnaPerShareOrValue"}
      [] tok = "record" -> {"SUPERLATIVE_WORDS"}
      [] tok = "doubled" -> {"BIG_MOVE_WORDS"}
      [] tok \in {"$30m", "$900b"} -> {"LARGE_DOLLAR_AMOUNT", "LARGE_DOLLARS"}
      [] tok = "approval" -> {"approval"}
      [] tok = "topline" -> {"topline"}
      [] tok = "priority" -> {"ndaAcceptOrPriority"}
      [] tok = "holdlift" -> {"clinicalHoldLift"}
      [] tok = "announce" -> {"mnaAnnounce"}
      [] tok = "dividend" -> {"specialDividend"}
      [] tok = "dismiss" -> {"courtDismiss"}
      [] tok = "courtwin" -> {"courtWin"}
      [] tok = "influencer" -> {"memeOrInfluencer"}
      [] tok = "patent" -> {"patentGrant"}
      [] tok = "secupdate" -> {"securityIncidentUpdate"}
      [] tok = "award" -> {"awardsPR"}
      [] tok = "namechange" -> {"nameTickerChange"}
      [] tok = "lawfirm" -> {"lawFirmPR"}
      [] tok = "proxy" -> {"proxyAdvisor"}
      [] tok = "voteonly" -> {"voteAdminOnly"}
      [] tok = "conference" -> {"investorConfs"}
      [] tok = "erratum" -> {"typoErratum"}
      [] tok = "dilution" -> {"plainDilution"}
      [] tok = "nowarrants" -> {"noWarrantsNoRS", "plainDilution"}
      [] OTHER -> {}

(* rx.test(text) of a pattern without the g or y flag: a match anywhere,    *)
(* and nothing is remembered between calls.                                 *)
Rx(rx, text) == \E i \in 1..Len(text) : rx \in MatchedBy(text[i])

BASELINE ==
    "PIVOTAL_TRIAL_SUCCESS" :> 74 @@ "FDA_MARKETING_AUTH" :> 72
    @@ "FDA_ADCOM_POSITIVE" :> 68 @@ "REGULATORY_DESIGNATION" :> 54
    @@ "TIER1_PARTNERSHIP" :> 62 @@ "MAJOR_GOV_CONTRACT" :> 62
    @@ "GOVERNMENT_EQUITY_OR_GRANT" :> 61 @@ "ACQUISITION_BUYOUT" :> 66
    @@ "IPO_DEBUT_POP" :> 56 @@ "COURT_WIN_INJUNCTION" :> 56
    @@ "MEME_OR_INFLUENCER" :> 50 @@ "RESTRUCTURING_OR_FINANCING" :> 60
    @@ "POLICY_OR_POLITICS_TAILWIND" :> 44 @@ "EARNINGS_BEAT_OR_GUIDE_UP" :> 52
    @@ "INDEX_INCLUSION" :> 50 @@ "UPLISTING_TO_NASDAQ" :> 48
    @@ "REVERSE_SPLIT_UPLIST_PATH" :> 58 @@ "CE_REMOVAL_OR_RESUME_TRADING" :> 67
    @@ "GOING_CONCERN_REMOVED" :> 56 @@ "INSIDER_BUY_CLUSTER" :> 60
    @@ "TOXIC_FINANCING_TERMINATED" :> 64 @@ "AUTHORIZED_SHARES_REDUCED" :> 56
    @@ "DILUTION_FREE_INVESTMENT" :> 60 @@ "LARGE_ORDER_RELATIVE" :> 57
    @@ "DISTRIBUTION_AGREEMENT_MATERIAL" :> 60 @@ "CRYPTO_OR_AI_TREASURY_PIVOT" :> 55
    @@ "CUSTODIANSHIP_OR_RM_DEAL" :> 60 @@ "AUDIT_COMPLETED_FILINGS_CURED" :> 56
    @@ "OTHER" :> 20

(* Keys that every object literal inherits from Object.prototype.           *)
InheritedKeys == {"constructor", "toString", "valueOf", "hasOwnProperty"}

(* BASELINE[label] ?? BASELINE.OTHER (line 1059).  An own key gives its     *)
(* number and a key found nowhere gives OTHER's; an inherited key gives a   *)
(* function, which is not nullish and which Math.min and Math.max turn      *)
(* into NaN.                                                                *)
baselineOf(label) ==
    IF label \in DOMAIN BASELINE THEN Num(BASELINE[label])
    ELSE IF label \in InheritedKeys THEN NaN
    ELSE Num(BASELINE["OTHER"])

mcMillions(it) == it.marketCap

microMaterialityBoost(text, it) ==
    LET e   == extractDollarsMillions(text)
        amt == IF e.def THEN e.v ELSE 0
        mc  == mcMillions(it)
    IN  [material |-> amt >= 1,
         major    |-> 2 * amt >= 15,
         relBoost |-> IF RatioAtLeast(amt, mc, 1, 2) THEN 12
                      ELSE IF RatioAtLeast(amt, mc, 1, 4) THEN 8
                      ELSE IF RatioAtLeast(amt, mc, 1, 10) THEN 5
                      ELSE IF RatioAtLeast(amt, mc, 1, 20) THEN 3
                      ELSE 0]

(* Step 9 of score (lines 1195-1207): the size-sensitive bump.  !!mc is     *)
(* false for an unknown and for a zero cap.                                 *)
sizeBump(it) ==
    LET mc        == mcMillions(it)
        truthy    == mc.def /\ mc.v # 0
        isSub100M == truthy /\ mc.v < 100
        isSub25M  == truthy /\ mc.v < 25
        isSub10M  == truthy /\ mc.v < 10
        isSmallCap == it.marketCap.def /\ it.marketCap.v > 0
                      /\ it.marketCap.v < 1000
    IN  IF isSub10M THEN 18
        ELSE IF isSub25M THEN 14
        ELSE IF isSub100M THEN 10
        ELSE IF isSmallCap THEN 14
        ELSE 0

CapIf(cond, s, c) == IF cond THEN Min(s, c) ELSE s

BumpIf(cond, s, d) == IF cond THEN s + d ELSE s

WireSensitive ==
    {"PIVOTAL_TRIAL_SUCCESS", "FDA_MARKETING_AUTH", "FDA_ADCOM_POSITIVE",
     "TIER1_PARTNERSHIP", "MAJOR_GOV_CONTRACT", "GOVERNMENT_EQUITY_OR_GRANT",
     "ACQUISITION_BUYOUT", "EARNINGS_BEAT_OR_GUIDE_UP", "INDEX_INCLUSION",
     "UPLISTING_TO_NASDAQ", "IPO_DEBUT_POP"}

WithScore(it, sc) == [it EXCEPT !.score = sc]

(* The item function of score (lines 1043-1226).                            *)
scoreItem(it) ==
    LET title  == Nullish(it.title, Str(<<>>)).s
        body   == Nullish(it.summary, Nullish(it.text, Str(<<>>))).s
        blob   == title \o body
        label  == it.klass
        isWire == isWirePR(it.url, blob)
        base   == baselineOf(label)
        (* 2) noise caps *)
        n1 == CapIf(Rx("RX_PROXY_ADVISOR", blob) \/ Rx("RX_VOTE_ADMIN_ONLY", blob),
                    base.v, 20)
        n2 == CapIf(Rx("RX_LAWFIRM", blob), n1, 12)
        n3 == CapIf(Rx("RX_AWARDS", blob), n2, 18)
        n4 == CapIf(Rx("RX_SECURITY_UPDATE", blob), n3, 16)
        n5 == CapIf(Rx("RX_INVESTOR_CONFS", blob), n4, 16)
        n6 == CapIf(Rx("RX_NAME_TICKER_CHANGE", blob), n5, 16)
        n7 == CapIf(Rx("ANALYST_NOISE", blob), n6, 16)
        n8 == CapIf(Rx("SHELF_ATM", blob), n7, 18)
        n9 == CapIf(~Rx("SPECIAL_DIVIDEND", blob) /\ Rx("BUYBACK_DIVIDEND", blob),
                    n8, 20)
        s2 == CapIf(Rx("STRATEGIC_ALTERNATIVES", blob), n9, 30)
        (* 3) dilutive financing *)
        isPlainDilutive ==
            /\ Rx("RX_PLAIN_DILUTIVE", blob)
            /\ ~(\/ Rx("RX_DILUTION_POSITIVE", blob)
                 \/ Rx("RX_NON_DILUTIVE", blob)
                 \/ Rx("DEBT_CURED", blob))
        s3 == CapIf(isPlainDilutive, s2, 18)
        (* 4) bio nuance *)
        s4 == IF label = "PIVOTAL_TRIAL_SUCCESS"
              THEN IF Rx("RX_PIVOTAL", blob) /\ Rx("RX_TOPLINE_STRONG", blob)
                   THEN s3 + 6
                   ELSE BumpIf(Rx("RX_MID_STAGE_WIN", blob), s3, 3)
              ELSE s3
        (* 5) M&A *)
        definitive ==
            \/ Rx("RX_MNA_DEFINITIVE", blob)
            \/ Rx("RX_MNA_WILL_ACQUIRE", blob) /\ Rx("RX_MNA_PERPRICE", blob)
        m1 == BumpIf(definitive, s4, 6)
        m2 == BumpIf(Rx("RX_MNA_PERPRICE", blob), m1, 2)
        m3 == BumpIf(Rx("RX_MNA_ANNOUNCE", blob), m2, 4)
        m4 == BumpIf(Rx("RX_MNA_LOI_ANY", blob), m3, -6)
        m5 == CapIf(Rx("RX_MNA_ADMIN", blob), m4, 40)
        m6 == CapIf(\/ Rx("RX_ASSET_SALE", blob)
                    \/ Rx("RX_ASSET_SALE_TITLELIKE", blob)
                    \/ Rx("RX_PROPERTY_ACQ", blob), m5, 40)
        s5 == IF label = "ACQUISITION_BUYOUT" THEN m6 ELSE s4
        (* 6) transformational finance *)
        t1 == BumpIf(Rx("RX_PROJECT_FINANCE", blob), 0, 10)
        t2 == BumpIf(Rx("RX_FULLY_FUNDED", blob), t1, 6)
        t3 == BumpIf(Rx("RX_CONSTRUCTION_DECISION", blob), t2, 6)
        t4 == BumpIf(Rx("RX_ROYALTY_STREAM", blob), t3, 6)
        t5 == BumpIf(Rx("RX_OFFTAKE", blob), t4, 4)
        t6 == BumpIf(Rx("RX_PERMIT_APPROVAL", blob), t5, 5)
        t7 == BumpIf(Rx("RX_PRODUCTION_START", blob), t6, 6)
        t8 == BumpIf(Rx("RX_PROJECT_FINANCE", blob)
                     /\ Rx("RX_CONSTRUCTION_DECISION", blob), t7, 2)
        tfBoost == Min(20, t8)
        s6 == IF label = "RESTRUCTURING_OR_FINANCING"
              THEN BumpIf(isWire /\ Rx("RX_NON_DILUTIVE", blob), s5 + tfBoost, 3)
              ELSE s5
        (* 7) wire presence *)
        mc == mcMillions(it)
        isMicro == mc.def /\ mc.v < 50
        allowOffWire == label = "ACQUISITION_BUYOUT" /\ isMicro
                        /\ Rx("RX_MNA_ANNOUNCE", blob)
        s7 == IF label \in WireSensitive
              THEN IF isWire THEN s6 + 4 ELSE CapIf(~allowOffWire, s6, 48)
              ELSE BumpIf(isWire, s6, 2)
        (* 8) materiality *)
        mm == microMaterialityBoost(blob, it)
        s8 == BumpIf(mm.major, BumpIf(mm.material, s7 + mm.relBoost, 2), 3)
        (* 9) size *)
        s9 == s8 + sizeBump(it)
        (* 10) textual nudges *)
        x1 == BumpIf(Rx("SUPERLATIVE_WORDS", blob), s9, 4)
        x2 == BumpIf(Rx("LARGE_DOLLAR_AMOUNT", blob), x1, 6)
        x3 == BumpIf(Rx("BIG_MOVE_WORDS", blob), x2, 6)
        s10 == BumpIf(it.nSymbols = 1, x3, 3)
        (* 11) earnings guard *)
        s11 == CapIf(/\ label = "EARNINGS_BEAT_OR_GUIDE_UP"
                     /\ ~Rx("RX_EARNINGS_BEAT", blob)
                     /\ ~Rx("RX_FIN_RESULTS", blob), s10, 40)
    IN  IF Rx("KILL_MISINFO", blob) THEN WithScore(it, Num(0))
        ELSE IF base.nan THEN WithScore(it, NaN)
        ELSE WithScore(it, Num(Clamp(0, 100, s11)))

score(items) == [i \in DOMAIN items |-> scoreItem(items[i])]

(* normalize (classify.ts lines 192-198) turns every run of white space,    *)
(* a line break included, into one blank.                                   *)
normalize(text) ==
    [i \in DOMAIN text |-> IF text[i] = "unauth/nl" THEN "unauth" ELSE text[i]]

isMaterialMicroDollar(x) ==
    LET m == extractDollarsMillions(x)
    IN  [material |-> m.def /\ m.v >= 1, major |-> m.def /\ 2 * m.v >= 15]

(* A Map from labels to weights, as its entries in insertion order.         *)
MapHas(m, l) == \E i \in DOMAIN m : m[i].label = l

MapGet(m, l) == IF MapHas(m, l) THEN m[CHOOSE i \in DOMAIN m : m[i].label = l].w ELSE 0

(* m.set(l, (m.get(l) ?? 0) + w)                                            *)
MapAdd(m, l, w) ==
    IF MapHas(m, l)
    THEN [i \in DOMAIN m |-> IF m[i].label = l THEN [label |-> l, w |-> m[i].w + w]
                             ELSE m[i]]
    ELSE Append(m, [label |-> l, w |-> w])

RECURSIVE MapAddAll(_, _, _)
MapAddAll(m, hits, i) ==
    IF i > Len(hits) THEN m
    ELSE MapAddAll(MapAdd(m, hits[i].label, hits[i].w), hits, i + 1)

RECURSIVE MapTotal(_, _)
MapTotal(m, i) == IF i > Len(m) THEN 0 ELSE m[i].w + MapTotal(m, i + 1)

(* A sort that puts the later of two equal entries first.                   *)
MapTopLast(m) ==
    m[CHOOSE i \in DOMAIN m :
        /\ \A j \in DOMAIN m : m[j].w <= m[i].w
        /\ \A j \in DOMAIN m : j > i => m[j].w < m[i].w]

(* The first entry of the stable sort by descending weight.                 *)
MapTop(m) ==
    m[CHOOSE i \in DOMAIN m :
        /\ \A j \in DOMAIN m : m[j].w <= m[i].w
        /\ \A j \in DOMAIN m : j < i => m[j].w < m[i].w]

(* A Map that a call would find filled by the calls before it.              *)
keptMap(prev) == prev

(* new Map() of line 876: empty, whatever earlier calls built.              *)
newMap(prev) == <<>>

Push(hits, ok, label, w) == IF ok THEN Append(hits, [label |-> label, w |-> w]) ELSE hits

(* classifyOne (lines 519-939).  The guards are all there; of the positive  *)
(* rules, the regulatory block, the M&A block, the partnership rule, the    *)
(* dividend, court, influencer, no-warrants, patent and reverse-split rules *)
(* and the wire safeguard are modelled, the patterns of the other rules     *)
(* matching no phrase of MatchedBy.                                         *)

(* Lines 565-587: the hits of the regulatory block.                         *)
bioHits(x, isPR) ==
    Push(Push(Push(Push(Push(Push(<<>>,
        isPR /\ (Rx("approval", x) \/ Rx("ukca", x)), "FDA_MARKETING_AUTH", 1000),
        isPR /\ Rx("adcom", x), "FDA_ADCOM_POSITIVE", 800),
        isPR /\ (Rx("pivotal", x) \/ Rx("topline", x) \/ Rx("midStageWin", x)),
        "PIVOTAL_TRIAL_SUCCESS", 900),
        isPR /\ Rx("designation", x), "REGULATORY_DESIGNATION", 600),
        Rx("ndaAcceptOrPriority", x), "PIVOTAL_TRIAL_SUCCESS", 600),
        Rx("clinicalHoldLift", x), "PIVOTAL_TRIAL_SUCCESS", 600)

(* Lines 707-770: the rules after the corporate block, in their order.      *)
lateHits(hits, x) ==
    Push(Push(Push(Push(Push(Push(Push(Push(hits,
        Rx("specialDividend", x), "RESTRUCTURING_OR_FINANCING", 700),
        Rx("courtWin", x), "COURT_WIN_INJUNCTION", 600),
        Rx("courtDismiss", x), "COURT_WIN_INJUNCTION", 500),
        Rx("memeOrInfluencer", x), "MEME_OR_INFLUENCER", 600),
        Rx("noWarrantsNoRS", x), "DILUTION_FREE_INVESTMENT", 700),
        Rx("patentGrant", x), "OTHER", 100),
        Rx("rsWithUplist", x), "REVERSE_SPLIT_UPLIST_PATH", 700),
        Rx("auditCured", x), "AUDIT_COMPLETED_FILINGS_CURED", 600)

(* Lines 589-622: the hits of the M&A block.                                *)
mnaHits(x) ==
    LET binding == \/ Rx("mnaBinding", x)
                   \/ Rx("mnaWillAcquire", x) /\ Rx("mnaPerShareOrValue", x)
        nonbind == Rx("mnaNonBinding", x)
        admin   == Rx("mnaAdminOnly", x)
        asset   == Rx("mnaAssetOrProperty", x)
    IN  Push(Push(Push(Push(Push(Push(<<>>,
            binding /\ ~nonbind /\ ~admin /\ ~asset, "ACQUISITION_BUYOUT", 900),
            Rx("mnaAnnounce", x) /\ ~asset, "ACQUISITION_BUYOUT", 700),
            Rx("mnaUnsolicitedProposal", x) /\ ~admin /\ ~asset,
            "ACQUISITION_BUYOUT", 600),
            nonbind \/ admin \/ asset, "OTHER", 200),
            Rx("strategicAltsOutcome", x), "ACQUISITION_BUYOUT", 700),
            Rx("mnaPremiumMention", x), "ACQUISITION_BUYOUT", 200)

(* Lines 657-674: the partnership rule and the name-drop rule.              *)
partnerHits(hits, x, dollars) ==
    LET anyDeal == \/ Rx("partnershipAny", x) \/ Rx("contractAny", x)
                   \/ Rx("dealSigned", x) \/ Rx("preferredVendor", x)
        isPartnership ==
            \/ anyDeal
            \/ Rx("TIER1_RX", x) /\ (Rx("TIER1_SMALL_VERBS", x) \/ Rx("pilotAny", x))
        nameDropOnly ==
            /\ Rx("TIER1_RX", x)
            /\ ~(anyDeal \/ Rx("pilotAny", x))
            /\ Rx("nameDropContext", x)
    IN  Push(Push(hits,
            isPartnership /\ ~nameDropOnly, "TIER1_PARTNERSHIP",
            (IF Rx("TIER1_RX", x) THEN 700 ELSE 500)
            + (IF dollars.major THEN 100 ELSE 0)),
            ~isPartnership /\ nameDropOnly, "MEME_OR_INFLUENCER", 400)

(* Lines 855-871: the safeguard for wire releases without any hit.          *)
safeguardHits(hits, x, isPR, dollars) ==
    Push(hits,
         /\ Len(hits) = 0 /\ isPR
         /\ (dollars.material \/ Rx("fullyFund", x))
         /\ Rx("strongAction", x),
         "RESTRUCTURING_OR_FINANCING",
         Min(800, 600 + (IF dollars.major THEN 200
                         ELSE IF dollars.material THEN 100 ELSE 0)))

(* Lines 883-892: the boost for partnerships and contracts of scale.        *)
scaleBoost(m, x, dollars) ==
    IF /\ \/ MapHas(m, "TIER1_PARTNERSHIP")
          \/ MapHas(m, "MAJOR_GOV_CONTRACT")
          \/ MapHas(m, "GOVERNMENT_EQUITY_OR_GRANT")
       /\ (Rx("LARGE_DOLLARS", x) \/ Rx("SCALE", x) \/ dollars.material)
    THEN MapAdd(m, "OTHER", 200)
    ELSE m

(* Lines 880-881: a trial success next to an authorization.                 *)
synergyBoost(m) ==
    IF MapHas(m, "PIVOTAL_TRIAL_SUCCESS") /\ MapHas(m, "FDA_MARKETING_AUTH")
    THEN MapAdd(m, "FDA_MARKETING_AUTH", 300)
    ELSE m

(* Lines 894-904: a reverse split on an uplisting path with cured filings.  *)
uplistBoost(m, x) ==
    IF /\ MapHas(m, "REVERSE_SPLIT_UPLIST_PATH")
       /\ (MapHas(m, "AUDIT_COMPLETED_FILINGS_CURED") \/ Rx("panelGrants", x))
    THEN MapAdd(m, "REVERSE_SPLIT_UPLIST_PATH", 200)
    ELSE m

(* Lines 919-931.                                                           *)
strongCatalyst(m) ==
    \/ MapGet(m, "ACQUISITION_BUYOUT") >= 800
    \/ MapGet(m, "FDA_MARKETING_AUTH") >= 800
    \/ MapGet(m, "PIVOTAL_TRIAL_SUCCESS") >= 800
    \/ MapGet(m, "MAJOR_GOV_CONTRACT") >= 800
    \/ MapGet(m, "RESTRUCTURING_OR_FINANCING") >= 700
    \/ MapGet(m, "UPLISTING_TO_NASDAQ") >= 600
    \/ MapGet(m, "REVERSE_SPLIT_UPLIST_PATH") >= 700
    \/ MapGet(m, "CE_REMOVAL_OR_RESUME_TRADING") >= 700
    \/ MapGet(m, "INSIDER_BUY_CLUSTER") >= 700
    \/ MapGet(m, "TOXIC_FINANCING_TERMINATED") >= 700
    \/ MapGet(m, "LARGE_ORDER_RELATIVE") >= 600
    \/ MapGet(m, "DISTRIBUTION_AGREEMENT_MATERIAL") >= 600

(* Lines 918-938: the verdict from the finished Map.                        *)
verdictOf(m) ==
    IF MapTotal(m, 1) <= 0 /\ ~strongCatalyst(m)
    THEN [event |-> "OTHER", score |-> 0, map |-> m]
    ELSE [event |-> MapTop(m).label, score |-> MapTop(m).w, map |-> m]

(* Lines 873-877: no hit gives OTHER; else the hits are summed by label in  *)
(* a Map of this call.  prev is the Map the call before this one built.     *)
combineHits(hits, x, dollars, prev) ==
    IF Len(hits) = 0 THEN [event |-> "OTHER", score |-> 0, map |-> prev]
    ELSE verdictOf(uplistBoost(scaleBoost(synergyBoost(
                      MapAddAll(newMap(prev), hits, 1)), x, dollars), x))

(* A classifyOne without hard guards.                                       *)
guardNone(x) == -1

(* Lines 526-549: the hard guards.                                          *)
guardScore(x) ==
    IF Rx("misinfo", x) THEN 0
    ELSE IF Rx("securityIncidentUpdate", x) THEN 0
    ELSE IF Rx("awardsPR", x) THEN 0
    ELSE IF Rx("nameTickerChange", x) THEN 0
    ELSE IF (Rx("proxyAdvisor", x) \/ Rx("voteAdminOnly", x))
            /\ ~Rx("mnaBinding", x) THEN 0
    ELSE IF Rx("investorConfs", x) THEN 0
    ELSE IF Rx("lawFirmPR", x) THEN 0
    ELSE IF Rx("analystMedia", x) THEN 0
    ELSE IF Rx("typoErratum", x) THEN 0
    ELSE IF /\ Rx("plainDilution", x)
            /\ ~(\/ Rx("premium", x) \/ Rx("noWarrantsNoRS", x)
                 \/ Rx("antiDilutionPositive", x) \/ Rx("rsWithUplist", x))
         THEN 10
    ELSE -1

(* Lines 562-871: the hits of the positive rules, in the order of the code. *)
hitsOf(x, isPR, dollars) ==
    safeguardHits(lateHits(partnerHits(bioHits(x, isPR) \o mnaHits(x), x, dollars), x),
                  x, isPR, dollars)

classifyText(x, isPR, dollars, prev) ==
    IF guardScore(x) >= 0
    THEN [event |-> "OTHER", score |-> guardScore(x), map |-> prev]
    ELSE combineHits(hitsOf(x, isPR, dollars), x, dollars, prev)

classifyBody(url, x, prev) ==
    classifyText(x, isWirePR(url, x), isMaterialMicroDollar(x), prev)

(* Lines 520-523: the text the patterns are tried on.                       *)
textOf(it) ==
    normalize(Falsy(it.title, Str(<<>>)).s)
    \o normalize(Falsy(it.summary, Falsy(it.text, Str(<<>>))).s)

classifyOne(it, prev) == classifyBody(it.url, textOf(it), prev)

Classified(it, event, sc) ==
    [title |-> it.title, summary |-> it.summary, text |-> it.text, url |-> it.url,
     marketCap |-> it.marketCap, nSymbols |-> it.nSymbols,
     klass |-> event, score |-> Num(sc)]

(* One turn of items.map in classify: the item's record joins the result.   *)
classifyStep(acc, it, r) ==
    [items |-> Append(acc.items, Classified(it, r.event, r.score)), map |-> r.map]

(* classify (lines 942-947): the items in order, one classifyOne each.      *)
RECURSIVE classifyFrom(_, _, _)
classifyFrom(items, i, acc) ==
    IF i > Len(items) THEN acc
    ELSE classifyFrom(items, i + 1,
                      classifyStep(acc, items[i], classifyOne(items[i], acc.map)))

classify(items, prev) == classifyFrom(items, 1, [items |-> <<>>, map |-> prev])

(* Inputs of the classifier and the scorer.                                 *)
Summaries ==
    {Undef, Str(<<>>), Str(<<"analyst">>), Str(<<"misinfo">>), Str(<<"unauth/nl">>),
     Str(<<"merger", "pershare">>), Str(<<"record", "$900b", "doubled">>),
     Str(<<"$30m">>)}

Texts == {Undef, Str(<<"misinfo">>), Str(<<"analyst">>)}

CapValues == {-5, 0, 5, 20, 60, 150, 5000}

MarketCaps == {Unknown} \cup {Known(c) : c \in CapValues}

ScoreItems ==
    [title : {Undef, Str(<<"plain">>)}, summary : Summaries, text : Texts,
     url : {"wire", "other"}, marketCap : MarketCaps, nSymbols : 0..2]

(* The items that share a batch with the item under study.                  *)
Companions ==
    { [title |-> Str(<<"plain">>), summary |-> Str(<<"merger", "pershare">>),
       text |-> Undef, url |-> "wire", marketCap |-> Known(60), nSymbols |-> 2],
      [title |-> Str(<<"plain">>), summary |-> Undef, text |-> Undef,
       url |-> "other", marketCap |-> Unknown, nSymbols |-> 0] }

ScoreBatches ==
    {<<a>> : a \in ScoreItems} \cup {<<a, o, a>> : a \in ScoreItems, o \in Companions}

(* Phrases of releases for the classifier, and the items made of up to      *)
(* MaxPhrases of them.                                                      *)
ClassifyVocab ==
    {"plain", "misinfo", "analyst", "merger", "announce", "approval", "topline",
     "priority", "holdlift", "dividend", "dismiss", "courtwin", "influencer",
     "patent", "secupdate", "award", "namechange", "lawfirm", "proxy", "voteonly",
     "conference", "erratum", "dilution", "nowarrants", "$30m"}

ClassifyTexts ==
    UNION {[1..n -> ClassifyVocab] : n \in 1..MaxPhrases}

ClassifyItems ==
    [title : {Str(t) : t \in ClassifyTexts}, summary : {Undef}, text : {Undef},
     url : {"wire", "other"}, marketCap : {Unknown}, nSymbols : {1}]

(* Labels a caller of score() may hand over: categories, a label of no      *)
(* category, and the name of an inherited property.                         *)
CallerLabels ==
    {"ACQUISITION_BUYOUT", "RESTRUCTURING_OR_FINANCING", "EARNINGS_BEAT_OR_GUIDE_UP",
     "OTHER", "NOT_A_CATEGORY", "constructor"}

ScoreInit ==
    /\ rawItems \in ScoreBatches
    /\ classified = <<>>
    /\ scored = <<>>
    /\ by = <<>>
    /\ spc = "start"

ClassifyInit ==
    /\ rawItems \in {<<a>> : a \in ClassifyItems}
    /\ classified = <<>>
    /\ scored = <<>>
    /\ by = <<>>
    /\ spc = "start"

(* run_realtime.ts line 621: classify(rawItems).                            *)
Classify ==
    /\ spc = "start"
    /\ LET r == classify(rawItems, by)
       IN  /\ classified' = r.items
           /\ by' = r.map
    /\ spc' = "classified"
    /\ UNCHANGED <<rawItems, scored>>

(* A caller that labels the items itself before it calls score().           *)
Relabel(label) ==
    /\ spc = "start"
    /\ classified' = [i \in DOMAIN rawItems |-> Classified(rawItems[i], label, 0)]
    /\ spc' = "labelled"
    /\ UNCHANGED <<rawItems, scored, by>>

(* run_realtime.ts line 622: score(classified).                             *)
Score ==
    /\ spc \in {"classified", "labelled"}
    /\ scored' = score(classified)
    /\ spc' = IF spc = "classified" THEN "scored" ELSE "scoredDirect"
    /\ UNCHANGED <<rawItems, classified, by>>

ScoreNext ==
    \/ Classify
    \/ \E label \in CallerLabels : Relabel(label)
    \/ Score

(***************************************************************************)
(* Part 6: definitions.                                                    *)
(***************************************************************************)

(* How a request ends: a 2xx answer, an error answer by status class, a     *)
(* reset connection, or the axios timeout.                                  *)
Outcomes == {"ok", "429", "5xx", "4xx", "ECONNRESET", "timeout"}

(* isRetriable of getJsonWithRetry (lines 39-42).                           *)
isRetriable(resp) == resp \in {"429", "5xx", "ECONNRESET"}

RetryInit ==
    /\ helper \in {"discord", "polygon"}
    /\ maxRetryAttempts \in 1..DefaultRetryAttempts
    /\ attempts = <<>>
    /\ attemptIndex = 0
    /\ rpc = "request"

(* requestWith429Retry (discord.ts lines 87-99): the POST of the try block  *)
(* ends, or the POST made from inside the catch block does.                 *)
DiscordResponse(resp) ==
    /\ helper = "discord"
    /\ rpc = "request"
    /\ attempts' = Append(attempts, resp)
    /\ rpc' = IF resp = "ok" THEN "returned"
              ELSE IF Len(attempts) = 0 /\ resp = "429" THEN "backoff"
              ELSE "threw"
    /\ UNCHANGED <<helper, maxRetryAttempts, attemptIndex>>

(* getJsonWithRetry (polygon.ts lines 27-57): one turn of its loop.         *)
PolygonResponse(resp) ==
    /\ helper = "polygon"
    /\ rpc = "request"
    /\ attempts' = Append(attempts, resp)
    /\ IF resp = "ok"
       THEN /\ rpc' = "returned"
            /\ attemptIndex' = attemptIndex
       ELSE /\ attemptIndex' = attemptIndex + 1
            /\ rpc' = IF ~isRetriable(resp) \/ attemptIndex + 1 >= maxRetryAttempts
                      THEN "threw" ELSE "backoff"
    /\ UNCHANGED <<helper, maxRetryAttempts>>

(* The timer of the backoff fires and the next request goes out.            *)
BackoffDone ==
    /\ rpc = "backoff"
    /\ rpc' = "request"
    /\ UNCHANGED <<helper, maxRetryAttempts, attempts, attemptIndex>>

RetryNext ==
    \/ \E resp \in Outcomes : DiscordResponse(resp)
    \/ \E resp \in Outcomes : PolygonResponse(resp)
    \/ BackoffDone

(***************************************************************************)
(* Specifications.                                                         *)
(***************************************************************************)

(* Variables of a part that a specification does not exercise.              *)
PoolIdle == PoolInit({"ok"}) /\ nItems = 0 /\ concurrency = 1

PipeIdle == PipeInit /\ CONCURRENCY = 1

DbIdle == DbInit

RetryIdle ==
    /\ helper = "discord"
    /\ maxRetryAttempts = 1
    /\ attempts = <<>>
    /\ attemptIndex = 0
    /\ rpc = "returned"

ScoreIdle ==
    /\ rawItems = <<>>
    /\ classified = <<>>
    /\ scored = <<>>
    /\ by = <<>>
    /\ spc = "start"

LlmIdle ==
    /\ llmItem = CHOOSE it \in LlmItems : it.klass = "OTHER"
    /\ modelRaw = [r \in Runs |-> NoAnswer]
    /\ out = [r \in Runs |-> NoOut]
    /\ enrich = [r \in Runs |-> NoLocals]
    /\ lpc = "start"

(* runWithConcurrency with a worker that is an async function.              *)
Init == PoolInit(AsyncKinds) /\ PipeIdle /\ LlmIdle /\ DbIdle /\ ScoreIdle /\ RetryIdle

Next == PoolNext /\ UNCHANGED <<pipeVars, llmVars, dbVars, scoreVars, retryVars>>

Spec == Init /\ [][Next]_vars

(* The same under the scheduling of the event loop: the executor's loop     *)
(* runs to its end, a callback that is queued is run, and every worker's    *)
(* promise settles in the end.                                              *)
PoolFairness ==
    /\ WF_vars(Call /\ UNCHANGED <<pipeVars, llmVars, dbVars, scoreVars, retryVars>>)
    /\ WF_vars(ExecutorStep /\ UNCHANGED <<pipeVars, llmVars, dbVars, scoreVars, retryVars>>)
    /\ \A i \in 1..MaxItems :
           /\ WF_vars(WorkerFulfil(i)
                      /\ UNCHANGED <<pipeVars, llmVars, dbVars, scoreVars, retryVars>>)
           /\ WF_vars(WorkerReject(i)
                      /\ UNCHANGED <<pipeVars, llmVars, dbVars, scoreVars, retryVars>>)
           /\ WF_vars(Finally(i)
                      /\ UNCHANGED <<pipeVars, llmVars, dbVars, scoreVars, retryVars>>)

SpecFair == Init /\ [][Next]_vars /\ PoolFairness

(* runWithConcurrency with a worker whose call may throw before it returns  *)
(* a promise.                                                               *)
InitSyncThrow == PoolInit(AnyKinds) /\ PipeIdle /\ LlmIdle /\ DbIdle /\ ScoreIdle /\ RetryIdle

SpecSyncThrow == InitSyncThrow /\ [][Next]_vars

(* The polling loop with its per-item pipelines.                            *)
InitPipeline == PipeInit /\ PoolIdle /\ LlmIdle /\ DbIdle /\ ScoreIdle /\ RetryIdle

NextPipeline == PipeNext /\ UNCHANGED <<poolVars, llmVars, dbVars, scoreVars, retryVars>>

SpecPipeline == InitPipeline /\ [][NextPipeline]_vars

(* runLlmCheck on one item, run twice with answers that differ in the       *)
(* remote verdict only.                                                     *)
InitLlm == LlmInit /\ PoolIdle /\ PipeIdle /\ DbIdle /\ ScoreIdle /\ RetryIdle

NextLlm == LlmNext /\ UNCHANGED <<poolVars, pipeVars, dbVars, scoreVars, retryVars>>

SpecLlm == InitLlm /\ [][NextLlm]_vars

(* Any sequence of save and seen calls on an empty EventDB.                 *)
InitLedger == DbInit /\ PoolIdle /\ PipeIdle /\ LlmIdle /\ ScoreIdle /\ RetryIdle

NextLedger == DbNext /\ UNCHANGED <<poolVars, pipeVars, llmVars, scoreVars, retryVars>>

SpecLedger == InitLedger /\ [][NextLedger]_vars

(* The dedupe step of processItem on a sequence of items.                   *)
NextDedupe ==
    /\ \E it \in DedupeItems : Dedupe(it)
    /\ UNCHANGED <<poolVars, pipeVars, llmVars, scoreVars, retryVars>>

SpecDedupe == InitLedger /\ [][NextDedupe]_vars

(* One batch through classify and score, or through score with the         *)
(* caller's labels.                                                         *)
InitScore == ScoreInit /\ PoolIdle /\ PipeIdle /\ LlmIdle /\ DbIdle /\ RetryIdle

NextScore == ScoreNext /\ UNCHANGED <<poolVars, pipeVars, llmVars, dbVars, retryVars>>

SpecScore == InitScore /\ [][NextScore]_vars

(* classify and score of one release, over the phrases of ClassifyVocab.    *)
InitClassify == ClassifyInit /\ PoolIdle /\ PipeIdle /\ LlmIdle /\ DbIdle /\ RetryIdle

NextClassify ==
    (Classify \/ Score) /\ UNCHANGED <<poolVars, pipeVars, llmVars, dbVars, retryVars>>

SpecClassify == InitClassify /\ [][NextClassify]_vars

(* One call of a request helper, with every course its requests can take.   *)
InitRetry == RetryInit /\ PoolIdle /\ PipeIdle /\ LlmIdle /\ DbIdle /\ ScoreIdle

NextRetry == RetryNext /\ UNCHANGED <<poolVars, pipeVars, llmVars, dbVars, scoreVars>>

SpecRetry == InitRetry /\ [][NextRetry]_vars

(***************************************************************************)
(* Properties of the pool.                                                 *)
(***************************************************************************)

(* C1: at every moment the number of worker invocations that have started  *)
(* and not yet settled is at most the concurrency bound.                   *)
C1_ActiveWithinBound == Cardinality(inflight) <= concurrency

(* C5: the launches made so far are the first `cursor` items of the input, *)
(* each once and in input order, and when no callback is left to run they  *)
(* are the whole input.                                                    *)
C5_LaunchesFollowInput ==
    /\ cursor <= nItems
    /\ launched = [i \in 1..cursor |-> i]
    /\ Quiescent => launched = [i \in 1..nItems |-> i]

C5_Witness ==
    /\ Quiescent
    /\ nItems = 3
    /\ concurrency = 2
    /\ launched = <<1, 2, 3>>
    /\ logged # {}

(* C6: the returned promise is resolved only when every item has been      *)
(* launched and every launched worker has settled and been accounted for.  *)
C6_ResolvesOnlyWhenAllSettled ==
    promise = "resolved" =>
        /\ cursor = nItems
        /\ Len(launched) = nItems
        /\ inflight = {}
        /\ settled = {}
        /\ active = 0

C6_Witness ==
    /\ promise = "resolved"
    /\ nItems = 3
    /\ logged # {}
    /\ resolveCalls = 1

(* C7: when a worker fails, by a rejected promise or by a throwing call,   *)
(* every item is still launched and the returned promise resolves.         *)
C7_FailureIsolated ==
    (Quiescent /\ \E i \in 1..cursor : kind[i] # "ok") =>
        /\ promise = "resolved"
        /\ cursor = nItems
        /\ ~unhandled

(***************************************************************************)
(* Properties of the pipeline.                                             *)
(***************************************************************************)

(* Workers of hash h that are past the ledger and not yet finished.        *)
Dispatching(h) ==
    {<<c, i>> \in CycleIds \X Slots :
        /\ wk[c][i] \in {"llm", "notify"}
        /\ HashOf[cycles[c].passed[i]] = h}

(* C2: for every hash, at most one worker ever passes the ledger check and *)
(* at most one alert is delivered, whatever the interleaving.              *)
C2_OneWorkerPerHash ==
    \A h \in Hashes :
        /\ hist[h].admitted <= 1
        /\ hist[h].alerts <= 1
        /\ Cardinality(Dispatching(h)) <= 1

C2_Witness ==
    \E c1, c2 \in CycleIds, i, j \in Slots :
        /\ c1 # c2
        /\ cycles[c1].phase = "run"
        /\ cycles[c2].phase = "run"
        /\ wk[c1][i] = "llm"
        /\ wk[c2][j] = "settled"
        /\ cycles[c1].passed[i] = 1
        /\ cycles[c2].passed[j] = 2
        /\ hist[HashOf[2]].deduped = 1

(* C3 as stated: once an item was submitted twice past the filters and no  *)
(* worker for it is still running, exactly one alert has been delivered.   *)
C3_ExactlyOneAlert ==
    \A h \in Hashes :
        (hist[h].admitted + hist[h].deduped >= 2 /\ Dispatching(h) = {})
        => hist[h].alerts = 1

(* C3 amended: never two alerts; the one admitted worker always reaches    *)
(* the dispatch, and the item ends with one alert if that dispatch         *)
(* succeeded and with none if it failed.                                   *)
C3_AtMostOneAlert ==
    \A h \in Hashes :
        /\ hist[h].alerts + hist[h].lost <= 1
        /\ (hist[h].admitted >= 1 /\ Dispatching(h) = {})
           => hist[h].alerts + hist[h].lost = 1

C3_Witness ==
    \E h \in Hashes :
        /\ hist[h].admitted = 1
        /\ hist[h].deduped >= 1
        /\ hist[h].lost = 1
        /\ hist[h].alerts = 0
        /\ Dispatching(h) = {}

(* C4: a newsCycle call starts only after every earlier call has ended.    *)
C4_CyclesNeverOverlap ==
    \A c1, c2 \in CycleIds :
        (c1 < c2 /\ cycles[c2].phase # "unscheduled") => cycles[c1].phase = "done"

(***************************************************************************)
(* Properties of the enrichment gateway.                                   *)
(***************************************************************************)

Returned(r) == out[r].kind = "out"

(* C8: a returned Decision is YES or SPECULATIVE only when all six gates   *)
(* of the returned result pass, and is PASS otherwise.                     *)
C8_PositiveOnlyWithAllGates ==
    \A r \in Runs :
        Returned(r) =>
            /\ out[r].invest \in Invests
            /\ out[r].invest # "PASS" =>
                 /\ out[r].gates.isWire
                 /\ out[r].gates.hasNamedCounterparty
                 /\ out[r].gates.hasQuantDetails
                 /\ out[r].gates.hasIndependentCorroboration
                 /\ out[r].gates.tickerVerified
                 /\ ~out[r].gates.redFlagsDetected

C8_Witness ==
    /\ Returned(1)
    /\ Returned(2)
    /\ out[1].invest = "YES"
    /\ out[2].invest = "YES"
    /\ llmItem.klass = "ACQUISITION_BUYOUT"
    /\ modelRaw[1].decision.invest = "PASS"

(* C9: the returned on-wire, named-counterparty and quantitative-detail    *)
(* gates equal the local text predicates on the canonical url and body.    *)
C9_GatesAreLocal ==
    \A r \in Runs :
        Returned(r) =>
            LET body == Take(llmItem.text, BodyLimit) IN
            /\ out[r].gates.isWire = isWirePR(llmItem.url, body)
            /\ out[r].gates.hasNamedCounterparty = hasNamedCounterparty(body)
            /\ out[r].gates.hasQuantDetails = hasQuantDetails(body)

(* C10: two runs whose answers differ only in the remote verdict and its   *)
(* reasons return the same Decision, gates and estimate.                   *)
C10_RemoteVerdictIgnored ==
    (Returned(1) /\ Returned(2)) =>
        /\ out[1].invest = out[2].invest
        /\ out[1].gates = out[2].gates
        /\ out[1].est = out[2].est

C10_Witness ==
    /\ Returned(1)
    /\ Returned(2)
    /\ modelRaw[1] # NoAnswer
    /\ modelRaw[1].decision.invest = "PASS"
    /\ modelRaw[2].decision.invest = "YES"
    /\ out[2].invest = "SPECULATIVE"

(* The sanitized estimate of run r, as runLlmCheck passes it on.            *)
normEst(r) == sanitizeModelJSON(modelRaw[r]).est

Calibrated(r) == Returned(r) /\ modelRaw[r] # NoAnswer /\ out[r].est # NoEst

(* C11: the calibrated p50 and p90 are never below the sanitized p50 and   *)
(* p90 that calibrateWithOTCHeuristics was given.                          *)
C11_CalibrationNeverLowers ==
    \A r \in Runs :
        Calibrated(r) =>
            /\ out[r].est.expected_move.p50 >= normEst(r).expected_move.p50
            /\ out[r].est.expected_move.p90 >= normEst(r).expected_move.p90

(* C19: the sanitized p50 and p90 lie in [0, 1000] and p90 >= p50.         *)
C19_SanitizedMoveInRange ==
    \A r \in Runs :
        (Returned(r) /\ modelRaw[r] # NoAnswer) =>
            LET em == normEst(r).expected_move IN
            /\ 0 <= em.p50 /\ em.p50 <= Pct(1000)
            /\ 0 <= em.p90 /\ em.p90 <= Pct(1000)
            /\ em.p90 >= em.p50

(* The enrichment of run r failed: runLlmCheck rejected, or it had no      *)
(* parsed answer to work with.                                             *)
EnrichmentFailed(r) ==
    \/ out[r] = Threw
    \/ Returned(r) /\ modelRaw[r] = NoAnswer

(* C12: after a failed enrichment the worker holds Decision PASS and no    *)
(* estimate, and stands before the alert dispatch.                         *)
C12_FailedEnrichmentPasses ==
    \A r \in Runs :
        (EnrichmentFailed(r) /\ enrich[r] # NoLocals) =>
            /\ enrich[r].decision = "PASS"
            /\ enrich[r].est = NoEst
            /\ enrich[r].stage = "notify"

C12_Witness ==
    /\ out[1] = Threw
    /\ enrich[1] # NoLocals
    /\ enrich[2] # NoLocals
    /\ enrich[2].stage = "notify"

(***************************************************************************)
(* Properties of the ledger.                                               *)
(***************************************************************************)

Saves == {k \in 1..Len(dbLog) : dbLog[k].op = "save"}

SameTriple(a, b) ==
    /\ Catalog[a].title = Catalog[b].title
    /\ Catalog[a].url = Catalog[b].url
    /\ Catalog[a].source = Catalog[b].source

(* The first save call for the triple of call k.                            *)
FirstSave(k) ==
    CHOOSE f \in Saves :
        /\ SameTriple(dbLog[f].id, dbLog[k].id)
        /\ \A g \in Saves : SameTriple(dbLog[g].id, dbLog[k].id) => f <= g

(* C13: saves of items with the same (title, url, source) return the same  *)
(* hash, leave one record for it that keeps the fields of the first        *)
(* insert, and seen(hash) is true from the first save on.                  *)
C13_SaveIdempotent ==
    /\ \A k \in Saves :
         LET f == FirstSave(k)
             rows == {r \in eventDb : r.hash = dbLog[k].hash}
         IN  /\ dbLog[k].hash = dbLog[f].hash
             /\ Cardinality(rows) = 1
             /\ \A r \in rows : r.provider_id = Catalog[dbLog[f].id].id
    /\ \A k \in 1..Len(dbLog) :
         (dbLog[k].op = "seen"
          /\ \E f \in Saves : f < k /\ SameTriple(dbLog[f].id, dbLog[k].id))
         => dbLog[k].found

C13_Witness ==
    /\ Len(dbLog) = 4
    /\ dbLog[1].op = "save" /\ dbLog[1].id = 1
    /\ dbLog[2].op = "seen" /\ dbLog[2].id = 2 /\ dbLog[2].found
    /\ dbLog[3].op = "save" /\ dbLog[3].id = 2
    /\ dbLog[4].op = "seen" /\ dbLog[4].found
    /\ Cardinality(eventDb) = 1

(***************************************************************************)
(* Properties of the classifier and the scorer.                            *)
(***************************************************************************)

ScoreDone == spc \in {"scored", "scoredDirect"}

InUnit(sc) == ~sc.nan /\ 0 <= sc.v /\ sc.v <= 100

ItemText(it) ==
    Falsy(it.title, Str(<<>>)).s \o Falsy(it.summary, Falsy(it.text, Str(<<>>))).s

HasMarker(it) == Rx("KILL_MISINFO", ItemText(it))

(* C15: an item whose text contains a retraction/misinformation marker      *)
(* leaves classify with category OTHER and score with score 0, whatever     *)
(* else matches and whatever its provenance, symbols and market cap are.    *)
C15_MarkerKillsItem ==
    spc = "scored" =>
        \A i \in DOMAIN rawItems :
            HasMarker(rawItems[i]) =>
                /\ classified[i].klass = "OTHER"
                /\ scored[i].klass = "OTHER"
                /\ scored[i].score = Num(0)

(* What the pipeline returns for one item that is classified and scored on  *)
(* its own, by the first calls ever made.                                   *)
Alone(it) ==
    LET c == classify(<<it>>, <<>>).items
    IN  [classified |-> c[1], scored |-> score(c)[1]]

(* C16: classification and scoring are deterministic and free of shared    *)
(* state: an item gets the same (category, score) wherever it stands in a   *)
(* batch, whatever the other items of the batch are and whatever calls came *)
(* before, namely what it gets when it is processed alone.                  *)
C16_NoSharedState ==
    spc = "scored" =>
        \A i \in DOMAIN rawItems :
            /\ classified[i] = Alone(rawItems[i]).classified
            /\ scored[i] = Alone(rawItems[i]).scored
            /\ \A j \in DOMAIN rawItems :
                   rawItems[i] = rawItems[j] =>
                       classified[i] = classified[j] /\ scored[i] = scored[j]

(* An item classified twice in one batch, after calls that built a Map for  *)
(* the same category.                                                       *)
C16_Witness ==
    /\ spc = "scored"
    /\ Len(rawItems) = 3
    /\ rawItems[1] = rawItems[3]
    /\ rawItems[2] # rawItems[1]
    /\ \A i \in 1..3 : scored[i].klass = "ACQUISITION_BUYOUT"
    /\ MapHas(by, "ACQUISITION_BUYOUT")
    /\ scored[1].score # scored[2].score

(* C17: a noise cap is a ceiling on the final score: an item whose text     *)
(* matches the analyst-note pattern has category OTHER and a score of at    *)
(* most 0.16, whatever its symbol count, market cap and provenance are.     *)
C17_AnalystCapIsCeiling ==
    spc = "scored" =>
        \A i \in DOMAIN rawItems :
            Rx("ANALYST_NOISE", ItemText(rawItems[i])) =>
                /\ scored[i].klass = "OTHER"
                /\ ~scored[i].score.nan
                /\ scored[i].score.v <= 16

(* C18: the capitalization-tier bonus is monotonic in the known market cap: *)
(* of two items that differ in their known market cap only, the one with    *)
(* the smaller cap gets a bonus at least as large.                          *)
C18_SizeBumpMonotonic ==
    spc = "scored" =>
        \A i \in DOMAIN scored : \A c2 \in CapValues :
            (scored[i].marketCap.def /\ scored[i].marketCap.v < c2) =>
                sizeBump(scored[i]) >= sizeBump([scored[i] EXCEPT !.marketCap = Known(c2)])

(***************************************************************************)
(* Properties of the request helpers.                                      *)
(***************************************************************************)

(* C20: a call of a request helper makes at most two requests, and makes a  *)
(* second one only after a rate-limit (429) answer to the first.            *)
C20_OneRetryAfter429Only ==
    /\ Len(attempts) <= 2
    /\ \A i \in 2..Len(attempts) : attempts[i - 1] = "429"

(***************************************************************************)
(* Further properties of the polling loop.                                 *)
(***************************************************************************)

(* C21: a failure anywhere in a cycle is caught inside newsCycle: the cycle *)
(* ends, and the timer still starts every later cycle.                      *)
C21_CycleFailureContained ==
    \A c \in CycleIds :
        cycles[c].failed =>
            /\ cycles[c].phase = "done"
            /\ (c < MaxCycles /\ cycles[c + 1].phase = "unscheduled")
                   => ENABLED IntervalTick(c + 1)

(* The first cycle failed and the second one runs its batch.                *)
C21_Witness ==
    /\ cycles[1].failed
    /\ cycles[1].phase = "done"
    /\ cycles[2].phase = "run"

(* The moves of one processItem invocation from stage to stage: a filter    *)
(* lets it on or ends it, the ledger check lets it on to the enrichment or  *)
(* ends it, the enrichment leads to the alert, the alert to the end.        *)
StageSteps ==
    {<<"none", "mcap">>, <<"none", "settled">>, <<"mcap", "exch">>,
     <<"mcap", "settled">>, <<"exch", "llm">>, <<"exch", "settled">>,
     <<"llm", "notify">>, <<"notify", "settled">>, <<"settled", "gone">>}

(* Some invocation moves from stage a to stage b in this step.              *)
Stepped(a, b) ==
    \E c \in CycleIds, i \in Slots : wk[c][i] = a /\ wk'[c][i] = b

TheText == textOf(rawItems[1])

TheHits ==
    hitsOf(TheText, isWirePR(rawItems[1].url, TheText), isMaterialMicroDollar(TheText))

(* The release was classified and no guard ended the call early.            *)
Unguarded == spc = "classified" /\ guardScore(TheText) < 0

RECURSIVE SumW(_, _, _)
SumW(hits, l, i) ==
    IF i > Len(hits) THEN 0
    ELSE (IF hits[i].label = l THEN hits[i].w ELSE 0) + SumW(hits, l, i + 1)

(* The place of the first hit of a label; past the end if it has none.      *)
FirstHit(hits, l) ==
    IF \E i \in DOMAIN hits : hits[i].label = l
    THEN CHOOSE i \in DOMAIN hits :
             hits[i].label = l /\ \A j \in 1..(i - 1) : hits[j].label # l
    ELSE Len(hits) + 1

LabelsOf(m) == {m[i].label : i \in DOMAIN m}

(* The categories a booster of lines 879-916 can add to.                    *)
BoostedLabels == {"FDA_MARKETING_AUTH", "OTHER", "REVERSE_SPLIT_UPLIST_PATH"}

(* C23: the weights of the hits are summed per category (a booster may add  *)
(* to three of them), the returned category has the highest total, the      *)
(* returned weight is that total, and of two categories with the highest    *)
(* total the one whose rule comes first is returned.                        *)
C23_HighestTotalWins ==
    (Unguarded /\ TheHits # <<>>) =>
        /\ \A l \in LabelsOf(by) :
               /\ MapGet(by, l) >= SumW(TheHits, l, 1)
               /\ l \notin BoostedLabels => MapGet(by, l) = SumW(TheHits, l, 1)
               /\ MapGet(by, l) <= MapGet(by, classified[1].klass)
               /\ (MapGet(by, l) = MapGet(by, classified[1].klass)
                     /\ l # classified[1].klass)
                      => FirstHit(TheHits, classified[1].klass) < FirstHit(TheHits, l)
        /\ \A i \in DOMAIN TheHits : TheHits[i].label \in LabelsOf(by)
        /\ classified[1].klass \in LabelsOf(by)
        /\ classified[1].score = Num(MapGet(by, classified[1].klass))

(* An announced acquisition and a special dividend weigh 7 each: the        *)
(* acquisition, whose rule comes first, is returned.                        *)
C23_Witness ==
    /\ Unguarded
    /\ classified[1].klass = "ACQUISITION_BUYOUT"
    /\ MapGet(by, "ACQUISITION_BUYOUT") = 700
    /\ MapGet(by, "RESTRUCTURING_OR_FINANCING") = 700

(* C24: when a positive rule fired and no category's total reaches its      *)
(* strong-catalyst floor, the verdict is OTHER with weight 0.               *)
C24_BelowFloorIsOther ==
    (Unguarded /\ TheHits # <<>> /\ ~strongCatalyst(by)) =>
        /\ classified[1].klass = "OTHER"
        /\ classified[1].score = Num(0)

(* The synergy bonus went to category a and not to category b.              *)
BonusTo(a, b) ==
    /\ MapGet(by, a) = SumW(TheHits, a, 1) + 300
    /\ MapGet(by, b) = SumW(TheHits, b, 1)

(* C25: when the trial-success and the authorization category both have     *)
(* hits, the synergy bonus of 3 is added to the one of the two with the     *)
(* larger total, and not to the other.                                      *)
C25_BonusToDominant ==
    (/\ Unguarded
     /\ SumW(TheHits, "PIVOTAL_TRIAL_SUCCESS", 1) > 0
     /\ SumW(TheHits, "FDA_MARKETING_AUTH", 1) > 0) =>
        /\ SumW(TheHits, "PIVOTAL_TRIAL_SUCCESS", 1) > SumW(TheHits, "FDA_MARKETING_AUTH", 1)
               => BonusTo("PIVOTAL_TRIAL_SUCCESS", "FDA_MARKETING_AUTH")
        /\ SumW(TheHits, "FDA_MARKETING_AUTH", 1) > SumW(TheHits, "PIVOTAL_TRIAL_SUCCESS", 1)
               => BonusTo("FDA_MARKETING_AUTH", "PIVOTAL_TRIAL_SUCCESS")

(* A pattern with a zero-weight guard of its own matches.                   *)
ZeroSuppressor(x) ==
    \/ Rx("misinfo", x) \/ Rx("securityIncidentUpdate", x) \/ Rx("awardsPR", x)
    \/ Rx("nameTickerChange", x) \/ Rx("lawFirmPR", x) \/ Rx("analystMedia", x)
    \/ Rx("investorConfs", x) \/ Rx("typoErratum", x)

ProxyOrVote(x) == Rx("proxyAdvisor", x) \/ Rx("voteAdminOnly", x)

UnqualifiedDilution(x) ==
    /\ Rx("plainDilution", x)
    /\ ~(\/ Rx("premium", x) \/ Rx("noWarrantsNoRS", x)
         \/ Rx("antiDilutionPositive", x) \/ Rx("rsWithUplist", x))

(* C26: a hard-suppression pattern (retraction, security-incident update,   *)
(* award, name or ticker change, law-firm notice, analyst note, proxy or    *)
(* vote language without binding M&A language) gives OTHER with weight 0    *)
(* whatever positive rules the text satisfies; proxy or vote language next  *)
(* to binding M&A language does not suppress; unqualified dilution gives    *)
(* OTHER with weight 0.1, and that only when no zero-weight guard matched.  *)
C26_SuppressionFirst ==
    spc = "classified" =>
        /\ (ZeroSuppressor(TheText) \/ (ProxyOrVote(TheText) /\ ~Rx("mnaBinding", TheText)))
               => classified[1].klass = "OTHER" /\ classified[1].score = Num(0)
        /\ (/\ ProxyOrVote(TheText) /\ Rx("mnaBinding", TheText)
             /\ ~ZeroSuppressor(TheText) /\ ~UnqualifiedDilution(TheText))
               => /\ MapGet(by, "ACQUISITION_BUYOUT") >= 900
                  /\ classified[1].score.v >= 900
        /\ (/\ UnqualifiedDilution(TheText) /\ ~ZeroSuppressor(TheText)
             /\ ~(ProxyOrVote(TheText) /\ ~Rx("mnaBinding", TheText)))
               => classified[1].klass = "OTHER" /\ classified[1].score = Num(10)
        /\ classified[1].score = Num(10)
               => UnqualifiedDilution(TheText) /\ ~ZeroSuppressor(TheText)

(* A release of a definitive merger agreement that also names a prize and   *)
(* a registered direct offering: three positive hits aside, OTHER with 0.   *)
C26_Witness ==
    /\ spc = "classified"
    /\ Rx("awardsPR", TheText) /\ Rx("mnaBinding", TheText)
    /\ Rx("plainDilution", TheText)
    /\ TheHits # <<>>
    /\ classified[1].klass = "OTHER"
    /\ classified[1].score = Num(0)

(* Run 1 returned on an answer that follows the response schema, every gate *)
(* passed, and the calibrated estimate and the answer's scorecard reach     *)
(* the given strength, p90 and weighted total.                              *)
SchemaRunReaches(confs, cs, p90, total) ==
    /\ Returned(1)
    /\ modelRaw[1] \in SchemaAnswers
    /\ gatesPass(out[1].gates)
    /\ out[1].est.confidence \in confs
    /\ out[1].est.catalyst_strength >= cs
    /\ out[1].est.expected_move.p90 >= Pct(p90)
    /\ impactTotal(modelRaw[1].decision.impact) >= total

(* C27: on an answer that follows the response schema, with all gates       *)
(* passing, runLlmCheck returns YES when confidence is high, strength is at *)
(* least 0.7, p90 at least 80 and the scorecard's weighted total at least   *)
(* 0.68, and at least SPECULATIVE when confidence is medium or high,        *)
(* strength at least 0.5, p90 at least 40 and the total at least 0.5.       *)
C27_PositiveDecisionsReachable ==
    /\ SchemaRunReaches({"high"}, 70, 80, 6800) => out[1].invest = "YES"
    /\ SchemaRunReaches({"high", "medium"}, 50, 40, 5000)
           => out[1].invest \in {"YES", "SPECULATIVE"}

(* C28: the hash processItem looks up is the hash save() stores the item    *)
(* under: once an item was saved, a later dedupe step on the same item      *)
(* finds it, also when the item has no title or no url.                     *)
C28_SavedItemIsSeen ==
    \A i \in DOMAIN dbLog : \A j \in DOMAIN dbLog :
        (i < j /\ dbLog[i].op = "save" /\ dbLog[j].item = dbLog[i].item)
            => dbLog[j].found

(* C30: items whose (source, title, url) triples differ never give the same *)
(* string to the digest, also when a field contains the separator or the    *)
(* url is absent.                                                           *)
C30_KeyInjective ==
    \A i \in DOMAIN dbLog : \A j \in DOMAIN dbLog :
        dbLog[i].hash = dbLog[j].hash
            => /\ dbLog[i].item.source = dbLog[j].item.source
               /\ dbLog[i].item.title = dbLog[j].item.title
               /\ dbLog[i].item.url = dbLog[j].item.url

(* C29: for a non-empty item list and a bound of at least 1, if every       *)
(* worker settles in the end, the promise of runWithConcurrency is resolved *)
(* in the end and stays so, and resolve() is called once only.              *)
C29_EventuallyResolvedOnce ==
    /\ (nItems > 0 /\ promise = "pending")
           ~> [](promise = "resolved" /\ resolveCalls = 1)
    /\ [](resolveCalls <= 1)

(* A full batch under the largest bound, one worker having rejected, is     *)
(* resolved by its one call of resolve().                                   *)
C29_Witness ==
    /\ nItems = MaxItems
    /\ concurrency = MaxConcurrency
    /\ logged # {}
    /\ promise = "resolved"
    /\ resolveCalls = 1
    /\ inflight = {} /\ settled = {}

====
